---------------------------- MODULE Spec2Model ----------------------------
(***************************************************************************)
(* A model of JSEncryptionDetector (src/js_eyes_scan_v2.py): the rule      *)
(* library (load / merge / save / default), the comment stripper, the      *)
(* pattern matcher with its de-duplication, and the recursive crawler.     *)
(*                                                                         *)
(* Text is a sequence of symbols.  A symbol is either one character that   *)
(* matters to the code ("/", "*", a line break, a blank, a quote, a        *)
(* bracket) or one identifier-like token ("md5", "createHash", "x").       *)
(* Python objects read from JSON are tagged records (JStr, JNum, JList).   *)
(* A Python dict is a sequence of entries [k, v] in insertion order.       *)
(***************************************************************************)
EXTENDS Integers, Sequences, FiniteSets, TLC

VARIABLES
    algorithms,          \* self.algorithms: the live rule library
    loaded_rules_path,   \* self.loaded_rules_path
    hash_seed,           \* the salt of str.__hash__ in this process (PYTHONHASHSEED)
    files,               \* the rule files on disk: path -> content
    last,                \* the last rule-store call: its name, argument and return value
    pc,                  \* where crawl_and_detect / detect_in_code stands
    max_depth,           \* crawl_and_detect's max_depth argument
    web,                 \* the pages behind the URLs: url -> script tags
    visited,             \* crawl_and_detect's visited set
    results,             \* crawl_and_detect's results list
    stack,               \* the activation records of _crawl
    fetched,             \* every session.get issued so far, in order
    js_code,             \* detect_in_code's js_code argument
    detected,            \* detect_in_code's return value
    current_detection_results   \* self.current_detection_results

vars == <<algorithms, loaded_rules_path, hash_seed, files, last, pc, max_depth, web,
          visited, results, stack, fetched, js_code, detected, current_detection_results>>

ruleVars == <<algorithms, loaded_rules_path, hash_seed, files, last>>
crawlVars == <<pc, max_depth, web, visited, results, stack, fetched>>
detectVars == <<js_code, detected, current_detection_results>>

-----------------------------------------------------------------------------
(* Bounds of the model *)

\* longest code text handed to detect_in_code
MaxCodeLen == 4
\* most <script src> tags over all pages of one web
MaxLinks == 3
\* most activation records of _crawl the model keeps
MaxStack == 4
\* most patterns in one rule file
MaxPats == 2
\* most calls of detect_in_code on one code text
MaxCalls == 2
MaxSaves == 3

-----------------------------------------------------------------------------
(* Sequences *)

Range(s) == {s[i] : i \in 1..Len(s)}

RECURSIVE SeqsUpTo(_, _)
SeqsUpTo(S, n) ==
    IF n = 0 THEN {<<>>}
    ELSE LET shorter == SeqsUpTo(S, n - 1)
         IN  shorter \cup {Append(s, x) : s \in {t \in shorter : Len(t) = n - 1}, x \in S}

Max(a, b) == IF a >= b THEN a ELSE b
Min(a, b) == IF a <= b THEN a ELSE b

-----------------------------------------------------------------------------
(* Python objects parsed from JSON *)

JStr(s) == [t |-> "str", v |-> s]
JNum(n) == [t |-> "num", v |-> n]
JList(s) == [t |-> "list", v |-> s]
JDict(s) == [t |-> "dict", v |-> s]

\* dict operations on a sequence of entries [k, v]
Keys(d) == {d[i].k : i \in 1..Len(d)}
IndexOf(d, key) == CHOOSE i \in 1..Len(d) : d[i].k = key
Get(d, key) == d[IndexOf(d, key)].v
Put(d, key, val) ==
    IF key \in Keys(d)
    THEN [d EXCEPT ![IndexOf(d, key)] = [k |-> key, v |-> val]]
    ELSE Append(d, [k |-> key, v |-> val])

-----------------------------------------------------------------------------
(* Regular expressions, as Python's re module treats the patterns of the   *)
(* model: a pattern is its source string; Items gives its meaning as a     *)
(* sequence of items over symbols.  An item is a symbol class taken once   *)
(* ("1"), optionally ("?"), any number of times ("*"), at least once ("+"),*)
(* or the word-boundary assertion ("b").                                   *)

One(S) == [q |-> "1", neg |-> FALSE, cls |-> S]
Opt(S) == [q |-> "?", neg |-> FALSE, cls |-> S]
Star(S) == [q |-> "*", neg |-> FALSE, cls |-> S]
PlusNot(S) == [q |-> "+", neg |-> TRUE, cls |-> S]
WordB == [q |-> "b", neg |-> FALSE, cls |-> {}]

WhiteSpace == {" ", "\t", "\n", "\r"}
Quote == {"'", "\""}
NonWord == WhiteSpace \cup Quote \cup {"/", "*", "(", ")", "-", ".", "\\", "=", ";"}
IsWord(sym) == sym \notin NonWord

\* str.lower() of one symbol (re.IGNORECASE folds both sides)
Lower(sym) ==
    CASE sym = "MD5" -> "md5"
      [] sym = "DES" -> "des"
      [] sym = "createHash" -> "createhash"
      [] sym = "createCipher" -> "createcipher"
      [] sym = "createDecipher" -> "createdecipher"
      [] sym = "createSign" -> "createsign"
      [] sym = "createVerify" -> "createverify"
      [] sym = "fromCharCode" -> "fromcharcode"
      [] sym = "parseInt" -> "parseint"
      [] OTHER -> sym

\* the patterns no rule file gets past re.compile with
NonCompiling == {"not a valid ( regex", "("}

\* re.compile(pattern) succeeds
Compiles(pattern) == pattern \notin NonCompiling

CallOf(fn, arg) ==
    fn \o <<Star(WhiteSpace), One({"("}), Star(WhiteSpace), One(Quote)>> \o arg
       \o <<One(Quote), Star(WhiteSpace), One({")"})>>

Dashed(name) == <<One({name}), One({"-"}), PlusNot(Quote \cup {"\\", ")"})>>

Items(pattern) ==
    CASE pattern = "\\bmd5\\b" -> <<WordB, One({"md5"}), WordB>>
      [] pattern = "createHash\\s*\\(\\s*['\\\"]md5['\\\"]\\s*\\)" ->
            CallOf(<<One({"createhash"})>>, <<One({"md5"})>>)
      [] pattern = "\\bsha1\\b" -> <<WordB, One({"sha1"}), WordB>>
      [] pattern = "createHash\\s*\\(\\s*['\\\"]sha1['\\\"]\\s*\\)" ->
            CallOf(<<One({"createhash"})>>, <<One({"sha1"})>>)
      [] pattern = "\\bsha256\\b" -> <<WordB, One({"sha256"}), WordB>>
      [] pattern = "createHash\\s*\\(\\s*['\\\"]sha256['\\\"]\\s*\\)" ->
            CallOf(<<One({"createhash"})>>, <<One({"sha256"})>>)
      [] pattern = "\\baes\\b" -> <<WordB, One({"aes"}), WordB>>
      [] pattern = "createCipher(iv)?\\s*\\(\\s*['\\\"]aes-[^'\\\"\\\\)]+['\\\"]\\s*\\)" ->
            CallOf(<<One({"createcipher"}), Opt({"iv"})>>, Dashed("aes"))
      [] pattern = "createDecipher(iv)?\\s*\\(\\s*['\\\"]aes-[^'\\\"\\\\)]+['\\\"]\\s*\\)" ->
            CallOf(<<One({"createdecipher"}), Opt({"iv"})>>, Dashed("aes"))
      [] pattern = "\\brsa\\b" -> <<WordB, One({"rsa"}), WordB>>
      [] pattern = "createSign\\s*\\(\\s*['\\\"]rsa-[^'\\\"\\\\)]+['\\\"]\\s*\\)" ->
            CallOf(<<One({"createsign"})>>, Dashed("rsa"))
      [] pattern = "createVerify\\s*\\(\\s*['\\\"]rsa-[^'\\\"\\\\)]+['\\\"]\\s*\\)" ->
            CallOf(<<One({"createverify"})>>, Dashed("rsa"))
      [] pattern = "\\bbase64\\b" -> <<WordB, One({"base64"}), WordB>>
      [] pattern = "\\b(atob|btoa)\\b" -> <<WordB, One({"atob", "btoa"}), WordB>>
      [] pattern = "fromCharCode\\s*\\(\\s*parseInt\\s*\\(" ->
            <<One({"fromcharcode"}), Star(WhiteSpace), One({"("}), Star(WhiteSpace),
              One({"parseint"}), Star(WhiteSpace), One({"("})>>
      [] pattern = "\\bdes\\b" -> <<WordB, One({"des"}), WordB>>
      [] pattern = "createCipher\\s*\\(\\s*['\\\"]des['\\\"]\\s*\\)" ->
            CallOf(<<One({"createcipher"})>>, <<One({"des"})>>)
      [] pattern = "md5" -> <<One({"md5"})>>
      [] pattern = "x" -> <<One({"x"})>>

\* the symbol at position i belongs to the item's class, case folded
InClass(item, text, i) ==
    /\ i >= 1
    /\ i <= Len(text)
    /\ (Lower(text[i]) \in item.cls) # item.neg

\* \b at position i: exactly one of the two neighbours is a word symbol
AtBoundary(text, i) ==
    LET before == i > 1 /\ IsWord(text[i - 1])
        after == i <= Len(text) /\ IsWord(text[i])
    IN  before # after

\* The end (exclusive) of the match of items[k..] that starts at i, found
\* as a backtracking matcher finds it (greedy quantifiers), 0 when none.
RECURSIVE MatchFrom(_, _, _, _)
MatchFrom(items, k, text, i) ==
    IF k > Len(items) THEN i
    ELSE LET item == items[k]
             here == InClass(item, text, i)
             more == IF here THEN MatchFrom(items, k, text, i + 1) ELSE 0
             next == IF here THEN MatchFrom(items, k + 1, text, i + 1) ELSE 0
             skip == MatchFrom(items, k + 1, text, i)
         IN  CASE item.q = "b" -> IF AtBoundary(text, i) THEN skip ELSE 0
               [] item.q = "1" -> next
               [] item.q = "?" -> IF next # 0 THEN next ELSE skip
               [] item.q = "*" -> IF more # 0 THEN more ELSE skip
               [] item.q = "+" -> IF more # 0 THEN more ELSE next

\* re.finditer(pattern, text, re.IGNORECASE): the non-overlapping matches from
\* left to right, each <<start, end>> (end exclusive)
RECURSIVE FindIter(_, _, _)
FindIter(items, text, i) ==
    IF i > Len(text) THEN <<>>
    ELSE LET e == MatchFrom(items, 1, text, i)
         IN  IF e = 0 \/ e = i THEN FindIter(items, text, i + 1)
             ELSE <<(<<i, e>>)>> \o FindIter(items, text, e)

-----------------------------------------------------------------------------
(* Code preprocessing *)

\* the first position >= i that holds "\n", or one past the end
RECURSIVE EndOfLine(_, _)
EndOfLine(text, i) ==
    IF i > Len(text) \/ text[i] = "\n" THEN i ELSE EndOfLine(text, i + 1)

\* a substitution that replaces the first line comment only (count=1)
RECURSIVE SubFirstLineComment(_, _)
SubFirstLineComment(text, i) ==
    IF i > Len(text) THEN <<>>
    ELSE IF text[i] = "/" /\ i < Len(text) /\ text[i + 1] = "/"
         THEN SubSeq(text, EndOfLine(text, i + 2), Len(text))
         ELSE <<text[i]>> \o SubFirstLineComment(text, i + 1)

\* re.sub(r"//.*?$", "", js_code, flags=re.MULTILINE)
RECURSIVE SubLineComments(_, _)
SubLineComments(text, i) ==
    IF i > Len(text) THEN <<>>
    ELSE IF text[i] = "/" /\ i < Len(text) /\ text[i + 1] = "/"
         THEN SubLineComments(text, EndOfLine(text, i + 2))
         ELSE <<text[i]>> \o SubLineComments(text, i + 1)

\* the first position >= i where "*/" starts, 0 when there is none
RECURSIVE CloseAt(_, _)
CloseAt(text, i) ==
    IF i >= Len(text) THEN 0
    ELSE IF text[i] = "*" /\ text[i + 1] = "/" THEN i
         ELSE CloseAt(text, i + 1)

\* re.sub(r"/\*.*?\*/", "", code, flags=re.DOTALL)
RECURSIVE SubBlockComments(_, _)
SubBlockComments(text, i) ==
    IF i > Len(text) THEN <<>>
    ELSE IF text[i] = "/" /\ i < Len(text) /\ text[i + 1] = "*" /\ CloseAt(text, i + 2) # 0
         THEN SubBlockComments(text, CloseAt(text, i + 2) + 2)
         ELSE <<text[i]>> \o SubBlockComments(text, i + 1)

remove_comments(text) == SubBlockComments(SubLineComments(text, 1), 1)

\* the line boundaries of str.splitlines() among the symbols of the model
LineBreaks == {"\n", "\r"}

\* str.splitlines(): a line ends at a line break ("\r\n" is one break); no
\* empty last line after a final break
RECURSIVE SplitFrom(_, _, _)
SplitFrom(text, i, cur) ==
    IF i > Len(text) THEN (IF cur = <<>> THEN <<>> ELSE <<cur>>)
    ELSE IF text[i] = "\r" /\ i < Len(text) /\ text[i + 1] = "\n"
         THEN <<cur>> \o SplitFrom(text, i + 2, <<>>)
         ELSE IF text[i] \in LineBreaks
              THEN <<cur>> \o SplitFrom(text, i + 1, <<>>)
              ELSE SplitFrom(text, i + 1, Append(cur, text[i]))

splitlines(text) == SplitFrom(text, 1, <<>>)

\* str.strip()
RECURSIVE LStrip(_)
LStrip(text) ==
    IF text # <<>> /\ Head(text) \in WhiteSpace THEN LStrip(Tail(text)) ELSE text

RECURSIVE RStrip(_)
RStrip(text) ==
    IF text # <<>> /\ text[Len(text)] \in WhiteSpace
    THEN RStrip(SubSeq(text, 1, Len(text) - 1))
    ELSE text

strip(text) == RStrip(LStrip(text))

-----------------------------------------------------------------------------
(* Detection *)

\* code[:position].count('\n'), position counted from 0
RECURSIVE CountNewlines(_, _)
CountNewlines(text, n) ==
    IF n = 0 THEN 0
    ELSE CountNewlines(text, n - 1) + (IF text[n] = "\n" THEN 1 ELSE 0)

_get_line_number(code, position) == CountNewlines(code, position)

\* _get_context: the non-blank lines around line_num, each with its number
\* ("Line <n>: <text>" is the pair [n, text])
RECURSIVE ContextFrom(_, _, _)
ContextFrom(lines, i, end) ==
    IF i >= end THEN <<>>
    ELSE LET line == strip(lines[i + 1])
         IN  (IF line # <<>> THEN <<[n |-> i + 1, text |-> line]>> ELSE <<>>)
                 \o ContextFrom(lines, i + 1, end)

_get_context(lines, line_num) ==
    ContextFrom(lines, Max(0, line_num - 2 - 1), Min(Len(lines), line_num + 2))

\* the records of one pattern: one per match of re.finditer
RECURSIVE MatchRecords(_, _, _, _, _, _)
MatchRecords(matches, j, alg_name, source, cleaned_code, lines) ==
    IF j > Len(matches) THEN <<>>
    ELSE LET m == matches[j]
             line_num == _get_line_number(cleaned_code, m[1] - 1) + 1
         IN  <<[algorithm |-> alg_name,
                source |-> source,
                line |-> line_num,
                match |-> SubSeq(cleaned_code, m[1], m[2] - 1),
                context |-> _get_context(lines, line_num)]>>
                 \o MatchRecords(matches, j + 1, alg_name, source, cleaned_code, lines)

\* the inner loop of detect_in_code; a pattern re rejects is reported and skipped
RECURSIVE PatternRecords(_, _, _, _, _, _)
PatternRecords(patterns, j, alg_name, source, cleaned_code, lines) ==
    IF j > Len(patterns) THEN <<>>
    ELSE (IF Compiles(patterns[j].v)
          THEN MatchRecords(FindIter(Items(patterns[j].v), cleaned_code, 1), 1,
                            alg_name, source, cleaned_code, lines)
          ELSE <<>>)
             \o PatternRecords(patterns, j + 1, alg_name, source, cleaned_code, lines)

\* an outer loop that takes the algorithms from the last inserted to the first
RECURSIVE AlgorithmRecordsBackwards(_, _, _, _, _)
AlgorithmRecordsBackwards(rules, i, source, cleaned_code, lines) ==
    IF i > Len(rules) THEN <<>>
    ELSE AlgorithmRecordsBackwards(rules, i + 1, source, cleaned_code, lines)
             \o PatternRecords(rules[i].v.v, 1, rules[i].k, source, cleaned_code, lines)

\* the outer loop of detect_in_code, in the insertion order of the library
RECURSIVE AlgorithmRecords(_, _, _, _, _)
AlgorithmRecords(rules, i, source, cleaned_code, lines) ==
    IF i > Len(rules) THEN <<>>
    ELSE PatternRecords(rules[i].v.v, 1, rules[i].k, source, cleaned_code, lines)
             \o AlgorithmRecords(rules, i + 1, source, cleaned_code, lines)

Key(res) == <<res.algorithm, res.source, res.line>>

\* _deduplicate: the first record of every (algorithm, source, line)
RECURSIVE DedupFrom(_, _, _)
DedupFrom(recs, i, seen) ==
    IF i > Len(recs) THEN <<>>
    ELSE IF Key(recs[i]) \in seen THEN DedupFrom(recs, i + 1, seen)
         ELSE <<recs[i]>> \o DedupFrom(recs, i + 1, seen \cup {Key(recs[i])})

\* a _deduplicate whose seen set is kept from one call to the next
DeduplicateAcrossCalls(recs) == DedupFrom(recs, 1, {Key(detected.records[i]) : i \in 1..Len(detected.records)})

\* the last record of every (algorithm, source, line)
RECURSIVE DedupLastFrom(_, _)
DedupLastFrom(recs, i) ==
    IF i > Len(recs) THEN <<>>
    ELSE (IF \E j \in (i + 1)..Len(recs) : Key(recs[j]) = Key(recs[i])
          THEN <<>>
          ELSE <<recs[i]>>) \o DedupLastFrom(recs, i + 1)

DeduplicateKeepsLast(recs) == DedupLastFrom(recs, 1)

\* the first record of every (algorithm, source, line, match)
RECURSIVE DedupByMatchFrom(_, _, _)
DedupByMatchFrom(recs, i, seen) ==
    IF i > Len(recs) THEN <<>>
    ELSE LET key == <<recs[i].algorithm, recs[i].source, recs[i].line, recs[i].match>>
         IN  IF key \in seen THEN DedupByMatchFrom(recs, i + 1, seen)
             ELSE <<recs[i]>> \o DedupByMatchFrom(recs, i + 1, seen \cup {key})

DeduplicateByMatch(recs) == DedupByMatchFrom(recs, 1, {})

_deduplicate(recs) == DedupFrom(recs, 1, {})

detect_in_code(rules, code, source) ==
    LET cleaned_code == remove_comments(code)
        lines == splitlines(cleaned_code)
    IN  _deduplicate(AlgorithmRecords(rules, 1, source, cleaned_code, lines))

-----------------------------------------------------------------------------
(* The rule library *)

Pats(ps) == JList([i \in 1..Len(ps) |-> JStr(ps[i])])
Entry(name, ps) == [k |-> name, v |-> Pats(ps)]

\* the dict literal of _load_default_rules
DefaultRules ==
    << Entry("MD5", <<"\\bmd5\\b", "createHash\\s*\\(\\s*['\\\"]md5['\\\"]\\s*\\)">>),
       Entry("SHA-1", <<"\\bsha1\\b", "createHash\\s*\\(\\s*['\\\"]sha1['\\\"]\\s*\\)">>),
       Entry("SHA-256", <<"\\bsha256\\b", "createHash\\s*\\(\\s*['\\\"]sha256['\\\"]\\s*\\)">>),
       Entry("AES", <<"\\baes\\b",
                      "createCipher(iv)?\\s*\\(\\s*['\\\"]aes-[^'\\\"\\\\)]+['\\\"]\\s*\\)",
                      "createDecipher(iv)?\\s*\\(\\s*['\\\"]aes-[^'\\\"\\\\)]+['\\\"]\\s*\\)">>),
       Entry("RSA", <<"\\brsa\\b",
                      "createSign\\s*\\(\\s*['\\\"]rsa-[^'\\\"\\\\)]+['\\\"]\\s*\\)",
                      "createVerify\\s*\\(\\s*['\\\"]rsa-[^'\\\"\\\\)]+['\\\"]\\s*\\)">>),
       Entry("Base64", <<"\\bbase64\\b", "\\b(atob|btoa)\\b",
                         "fromCharCode\\s*\\(\\s*parseInt\\s*\\(">>),
       Entry("DES", <<"\\bdes\\b", "createCipher\\s*\\(\\s*['\\\"]des['\\\"]\\s*\\)">>) >>

\* the value _load_default_rules gives loaded_rules_path
DefaultRulesPath == "builtin default rules"

\* a file on disk is absent or holds text; what json.load makes of the text is
\* an object or, for text that is no JSON, BadJson (json.JSONDecodeError)
NoFile == [t |-> "absent", v |-> <<>>]
BadJson == [t |-> "malformed", v |-> <<>>]
TextFile(text) == [t |-> "text", v |-> text]

-----------------------------------------------------------------------------
(* JSON text: a sequence of tokens.  A token is a punctuation mark, a       *)
(* string literal (lit is what stands between the quotes) or a number.     *)
(* The white space json.dump writes for indent=2 is between tokens.        *)

Punct(c) == [tok |-> c, lit |-> ""]
StrLit(lit) == [tok |-> "str", lit |-> lit]
NumLit(lit) == [tok |-> "num", lit |-> lit]

\* json.dumps of the strings of the model that hold \ or ": each of the two
\* gets a backslash in front
Escaped ==
    ("\\bmd5\\b" :>
        "\\\\bmd5\\\\b")
    @@ ("createHash\\s*\\(\\s*['\\\"]md5['\\\"]\\s*\\)" :>
        "createHash\\\\s*\\\\(\\\\s*['\\\\\\\"]md5['\\\\\\\"]\\\\s*\\\\)")
    @@ ("\\bsha1\\b" :>
        "\\\\bsha1\\\\b")
    @@ ("createHash\\s*\\(\\s*['\\\"]sha1['\\\"]\\s*\\)" :>
        "createHash\\\\s*\\\\(\\\\s*['\\\\\\\"]sha1['\\\\\\\"]\\\\s*\\\\)")
    @@ ("\\bsha256\\b" :>
        "\\\\bsha256\\\\b")
    @@ ("createHash\\s*\\(\\s*['\\\"]sha256['\\\"]\\s*\\)" :>
        "createHash\\\\s*\\\\(\\\\s*['\\\\\\\"]sha256['\\\\\\\"]\\\\s*\\\\)")
    @@ ("\\baes\\b" :>
        "\\\\baes\\\\b")
    @@ ("createCipher(iv)?\\s*\\(\\s*['\\\"]aes-[^'\\\"\\\\)]+['\\\"]\\s*\\)" :>
        "createCipher(iv)?\\\\s*\\\\(\\\\s*['\\\\\\\"]aes-[^'\\\\\\\"\\\\\\\\)]+['\\\\\\\"]\\\\s*\\\\)")
    @@ ("createDecipher(iv)?\\s*\\(\\s*['\\\"]aes-[^'\\\"\\\\)]+['\\\"]\\s*\\)" :>
        "createDecipher(iv)?\\\\s*\\\\(\\\\s*['\\\\\\\"]aes-[^'\\\\\\\"\\\\\\\\)]+['\\\\\\\"]\\\\s*\\\\)")
    @@ ("\\brsa\\b" :>
        "\\\\brsa\\\\b")
    @@ ("createSign\\s*\\(\\s*['\\\"]rsa-[^'\\\"\\\\)]+['\\\"]\\s*\\)" :>
        "createSign\\\\s*\\\\(\\\\s*['\\\\\\\"]rsa-[^'\\\\\\\"\\\\\\\\)]+['\\\\\\\"]\\\\s*\\\\)")
    @@ ("createVerify\\s*\\(\\s*['\\\"]rsa-[^'\\\"\\\\)]+['\\\"]\\s*\\)" :>
        "createVerify\\\\s*\\\\(\\\\s*['\\\\\\\"]rsa-[^'\\\\\\\"\\\\\\\\)]+['\\\\\\\"]\\\\s*\\\\)")
    @@ ("\\bbase64\\b" :>
        "\\\\bbase64\\\\b")
    @@ ("\\b(atob|btoa)\\b" :>
        "\\\\b(atob|btoa)\\\\b")
    @@ ("fromCharCode\\s*\\(\\s*parseInt\\s*\\(" :>
        "fromCharCode\\\\s*\\\\(\\\\s*parseInt\\\\s*\\\\(")
    @@ ("\\bdes\\b" :>
        "\\\\bdes\\\\b")
    @@ ("createCipher\\s*\\(\\s*['\\\"]des['\\\"]\\s*\\)" :>
        "createCipher\\\\s*\\\\(\\\\s*['\\\\\\\"]des['\\\\\\\"]\\\\s*\\\\)")

\* json.dumps of a str, without the quotes around it
Escape(s) == IF s \in DOMAIN Escaped THEN Escaped[s] ELSE s

\* what the JSON decoder makes of the string literals of the model that hold
\* escape sequences: \\ gives \ and \" gives "
Unescaped ==
    ("\\\\bmd5\\\\b" :>
        "\\bmd5\\b")
    @@ ("createHash\\\\s*\\\\(\\\\s*['\\\\\\\"]md5['\\\\\\\"]\\\\s*\\\\)" :>
        "createHash\\s*\\(\\s*['\\\"]md5['\\\"]\\s*\\)")
    @@ ("\\\\bsha1\\\\b" :>
        "\\bsha1\\b")
    @@ ("createHash\\\\s*\\\\(\\\\s*['\\\\\\\"]sha1['\\\\\\\"]\\\\s*\\\\)" :>
        "createHash\\s*\\(\\s*['\\\"]sha1['\\\"]\\s*\\)")
    @@ ("\\\\bsha256\\\\b" :>
        "\\bsha256\\b")
    @@ ("createHash\\\\s*\\\\(\\\\s*['\\\\\\\"]sha256['\\\\\\\"]\\\\s*\\\\)" :>
        "createHash\\s*\\(\\s*['\\\"]sha256['\\\"]\\s*\\)")
    @@ ("\\\\baes\\\\b" :>
        "\\baes\\b")
    @@ ("createCipher(iv)?\\\\s*\\\\(\\\\s*['\\\\\\\"]aes-[^'\\\\\\\"\\\\\\\\)]+['\\\\\\\"]\\\\s*\\\\)" :>
        "createCipher(iv)?\\s*\\(\\s*['\\\"]aes-[^'\\\"\\\\)]+['\\\"]\\s*\\)")
    @@ ("createDecipher(iv)?\\\\s*\\\\(\\\\s*['\\\\\\\"]aes-[^'\\\\\\\"\\\\\\\\)]+['\\\\\\\"]\\\\s*\\\\)" :>
        "createDecipher(iv)?\\s*\\(\\s*['\\\"]aes-[^'\\\"\\\\)]+['\\\"]\\s*\\)")
    @@ ("\\\\brsa\\\\b" :>
        "\\brsa\\b")
    @@ ("createSign\\\\s*\\\\(\\\\s*['\\\\\\\"]rsa-[^'\\\\\\\"\\\\\\\\)]+['\\\\\\\"]\\\\s*\\\\)" :>
        "createSign\\s*\\(\\s*['\\\"]rsa-[^'\\\"\\\\)]+['\\\"]\\s*\\)")
    @@ ("createVerify\\\\s*\\\\(\\\\s*['\\\\\\\"]rsa-[^'\\\\\\\"\\\\\\\\)]+['\\\\\\\"]\\\\s*\\\\)" :>
        "createVerify\\s*\\(\\s*['\\\"]rsa-[^'\\\"\\\\)]+['\\\"]\\s*\\)")
    @@ ("\\\\bbase64\\\\b" :>
        "\\bbase64\\b")
    @@ ("\\\\b(atob|btoa)\\\\b" :>
        "\\b(atob|btoa)\\b")
    @@ ("fromCharCode\\\\s*\\\\(\\\\s*parseInt\\\\s*\\\\(" :>
        "fromCharCode\\s*\\(\\s*parseInt\\s*\\(")
    @@ ("\\\\bdes\\\\b" :>
        "\\bdes\\b")
    @@ ("createCipher\\\\s*\\\\(\\\\s*['\\\\\\\"]des['\\\\\\\"]\\\\s*\\\\)" :>
        "createCipher\\s*\\(\\s*['\\\"]des['\\\"]\\s*\\)")

\* a decoder that hands back a string literal as it is written
KeepEscapes(lit) == lit

\* what json.loads reads from a string literal
Unescape(lit) == IF lit \in DOMAIN Unescaped THEN Unescaped[lit] ELSE lit

Digits == 0..9

\* json.dumps(obj, ensure_ascii=False, indent=2)
RECURSIVE json_dumps(_)
RECURSIVE DumpItems(_, _)
DumpItems(items, i) ==
    IF i > Len(items) THEN <<>>
    ELSE (IF i > 1 THEN <<Punct(",")>> ELSE <<>>)
             \o json_dumps(items[i]) \o DumpItems(items, i + 1)

RECURSIVE DumpMembers(_, _)
DumpMembers(members, i) ==
    IF i > Len(members) THEN <<>>
    ELSE (IF i > 1 THEN <<Punct(",")>> ELSE <<>>)
             \o <<StrLit(Escape(members[i].k)), Punct(":")>>
             \o json_dumps(members[i].v) \o DumpMembers(members, i + 1)

json_dumps(obj) ==
    CASE obj.t = "str" -> <<StrLit(Escape(obj.v))>>
      [] obj.t = "num" -> <<NumLit(ToString(obj.v))>>
      [] obj.t = "list" -> <<Punct("[")>> \o DumpItems(obj.v, 1) \o <<Punct("]")>>
      [] obj.t = "dict" -> <<Punct("{")>> \o DumpMembers(obj.v, 1) \o <<Punct("}")>>

\* the token at position i, "eof" past the end
TokenAt(text, i) == IF i <= Len(text) THEN text[i] ELSE Punct("eof")

ParseError == [ok |-> FALSE, v |-> BadJson, next |-> 0]
Parsed(obj, next) == [ok |-> TRUE, v |-> obj, next |-> next]

\* the JSON decoder: the value that starts at token i and the position after it
RECURSIVE ParseValue(_, _)
RECURSIVE ParseItems(_, _, _)
ParseItems(text, i, items) ==
    LET item == ParseValue(text, i)
    IN  IF ~item.ok THEN ParseError
        ELSE IF TokenAt(text, item.next).tok = ","
             THEN ParseItems(text, item.next + 1, Append(items, item.v))
             ELSE IF TokenAt(text, item.next).tok = "]"
                  THEN Parsed(JList(Append(items, item.v)), item.next + 1)
                  ELSE ParseError

\* the members of an object; a name that comes again takes the later value
RECURSIVE ParseMembers(_, _, _)
ParseMembers(text, i, members) ==
    IF TokenAt(text, i).tok # "str" \/ TokenAt(text, i + 1).tok # ":" THEN ParseError
    ELSE LET val == ParseValue(text, i + 2)
             now == IF val.ok THEN Put(members, Unescape(text[i].lit), val.v) ELSE members
         IN  IF ~val.ok THEN ParseError
             ELSE IF TokenAt(text, val.next).tok = ","
                  THEN ParseMembers(text, val.next + 1, now)
                  ELSE IF TokenAt(text, val.next).tok = "}"
                       THEN Parsed(JDict(now), val.next + 1)
                       ELSE ParseError

ParseValue(text, i) ==
    LET token == TokenAt(text, i)
    IN  CASE token.tok = "str" -> Parsed(JStr(Unescape(token.lit)), i + 1)
          [] token.tok = "num" ->
                Parsed(JNum(CHOOSE n \in Digits : ToString(n) = token.lit), i + 1)
          [] token.tok = "[" ->
                IF TokenAt(text, i + 1).tok = "]" THEN Parsed(JList(<<>>), i + 2)
                ELSE ParseItems(text, i + 1, <<>>)
          [] token.tok = "{" ->
                IF TokenAt(text, i + 1).tok = "}" THEN Parsed(JDict(<<>>), i + 2)
                ELSE ParseMembers(text, i + 1, <<>>)
          [] OTHER -> ParseError

\* json.loads(text): the whole text is one value, or JSONDecodeError
json_loads(text) ==
    LET val == ParseValue(text, 1)
    IN  IF val.ok /\ val.next = Len(text) + 1 THEN val.v ELSE BadJson

\* what the program finds at a path: no file, or what json.load reads
ReadJson(file) == IF file.t = "absent" THEN NoFile ELSE json_loads(file.v)

-----------------------------------------------------------------------------
(* Validation and merge *)

\* the first pattern of a list that is no string, 0 when none: the loop of
\* _validate_rules without its re.compile
RECURSIVE FirstNonString(_, _)
FirstNonString(patterns, i) ==
    IF i > Len(patterns) THEN 0
    ELSE IF patterns[i].t # "str" THEN i
         ELSE FirstNonString(patterns, i + 1)

\* the first pattern of a list that is no string or does not compile, 0 when none
RECURSIVE FirstBadPattern(_, _)
FirstBadPattern(patterns, i) ==
    IF i > Len(patterns) THEN 0
    ELSE IF patterns[i].t # "str" \/ ~Compiles(patterns[i].v) THEN i
         ELSE FirstBadPattern(patterns, i + 1)

\* a loop over rules.items() that returns True after its first entry
ValidateFirstOnly(entries, i) ==
    IF i > Len(entries) THEN [ok |-> TRUE, error |-> "", alg |-> "", index |-> 0]
    ELSE LET alg == entries[i].k
             patterns == entries[i].v
         IN  IF patterns.t # "list"
             THEN [ok |-> FALSE, error |-> "InvalidFormat", alg |-> alg, index |-> 0]
             ELSE LET bad == FirstBadPattern(patterns.v, 1)
                  IN  IF bad = 0 THEN [ok |-> TRUE, error |-> "", alg |-> "", index |-> 0]
                      ELSE IF patterns.v[bad].t # "str"
                           THEN [ok |-> FALSE, error |-> "InvalidFormat", alg |-> alg, index |-> bad]
                           ELSE [ok |-> FALSE, error |-> "InvalidPattern", alg |-> alg, index |-> bad]

\* the loop of _validate_rules over rules.items(), from entry i on
RECURSIVE ValidateFrom(_, _)
ValidateFrom(entries, i) ==
    IF i > Len(entries) THEN [ok |-> TRUE, error |-> "", alg |-> "", index |-> 0]
    ELSE LET alg == entries[i].k
             patterns == entries[i].v
         IN  IF patterns.t # "list"
             THEN [ok |-> FALSE, error |-> "InvalidFormat", alg |-> alg, index |-> 0]
             ELSE LET bad == FirstBadPattern(patterns.v, 1)
                  IN  IF bad = 0 THEN ValidateFrom(entries, i + 1)
                      ELSE IF patterns.v[bad].t # "str"
                           THEN [ok |-> FALSE, error |-> "InvalidFormat", alg |-> alg, index |-> bad]
                           ELSE [ok |-> FALSE, error |-> "InvalidPattern", alg |-> alg, index |-> bad]

\* _validate_rules: its verdict, and what it reports on the first failure
ValidateResult(rules) ==
    IF rules.t # "dict"
    THEN [ok |-> FALSE, error |-> "InvalidFormat", alg |-> "", index |-> 0]
    ELSE ValidateFrom(rules.v, 1)

_validate_rules(rules) == ValidateResult(rules).ok

\* _view_rules_file(file_path, preview_only=True): the file parses and validates
_view_rules_file(content) ==
    /\ content.t \notin {"absent", "malformed"}
    /\ _validate_rules(content)

\* every object the model puts in a pattern list
Hashable ==
    << JStr("\\bmd5\\b"), JStr("createHash\\s*\\(\\s*['\\\"]md5['\\\"]\\s*\\)"),
       JStr("\\bsha1\\b"), JStr("createHash\\s*\\(\\s*['\\\"]sha1['\\\"]\\s*\\)"),
       JStr("\\bsha256\\b"), JStr("createHash\\s*\\(\\s*['\\\"]sha256['\\\"]\\s*\\)"),
       JStr("\\baes\\b"),
       JStr("createCipher(iv)?\\s*\\(\\s*['\\\"]aes-[^'\\\"\\\\)]+['\\\"]\\s*\\)"),
       JStr("createDecipher(iv)?\\s*\\(\\s*['\\\"]aes-[^'\\\"\\\\)]+['\\\"]\\s*\\)"),
       JStr("\\brsa\\b"),
       JStr("createSign\\s*\\(\\s*['\\\"]rsa-[^'\\\"\\\\)]+['\\\"]\\s*\\)"),
       JStr("createVerify\\s*\\(\\s*['\\\"]rsa-[^'\\\"\\\\)]+['\\\"]\\s*\\)"),
       JStr("\\bbase64\\b"), JStr("\\b(atob|btoa)\\b"),
       JStr("fromCharCode\\s*\\(\\s*parseInt\\s*\\("),
       JStr("\\bdes\\b"), JStr("createCipher\\s*\\(\\s*['\\\"]des['\\\"]\\s*\\)"),
       JStr("md5"), JStr("x"), JStr("not a valid ( regex"), JStr("("), JNum(1) >>

\* hash(obj) in a process whose string hashes are salted by seed: one of the
\* orders in which a set can hand back its members
HashOf(seed, obj) ==
    IF \E i \in 1..Len(Hashable) : Hashable[i] = obj
    THEN ((CHOOSE i \in 1..Len(Hashable) : Hashable[i] = obj) * seed) % (Len(Hashable) + 1)
    ELSE 0

\* list(set(S)): the members of S in the order of their hashes
RECURSIVE ListOfSet(_, _)
ListOfSet(seed, S) ==
    IF S = {} THEN <<>>
    ELSE LET first == CHOOSE x \in S : \A y \in S : HashOf(seed, x) <= HashOf(seed, y)
         IN  <<first>> \o ListOfSet(seed, S \ {first})

\* a merge loop that gives an algorithm already present only the patterns it
\* did not have
RECURSIVE MergeKeepsNew(_, _, _, _)
MergeKeepsNew(seed, lib, new_rules, i) ==
    IF i > Len(new_rules) THEN lib
    ELSE LET alg == new_rules[i].k
             patterns == new_rules[i].v
         IN  IF alg \in Keys(lib)
             THEN MergeKeepsNew(seed,
                                Put(lib, alg, JList(ListOfSet(seed, Range(patterns.v) \ Range(Get(lib, alg).v)))),
                                new_rules, i + 1)
             ELSE MergeKeepsNew(seed, Put(lib, alg, patterns), new_rules, i + 1)

\* a merge loop that leaves an algorithm already present as it is
RECURSIVE MergeSkipsKnown(_, _, _, _)
MergeSkipsKnown(seed, lib, new_rules, i) ==
    IF i > Len(new_rules) THEN lib
    ELSE IF new_rules[i].k \in Keys(lib)
         THEN MergeSkipsKnown(seed, lib, new_rules, i + 1)
         ELSE MergeSkipsKnown(seed, Put(lib, new_rules[i].k, new_rules[i].v), new_rules, i + 1)

\* a merge loop that assigns the new patterns to an algorithm already present
RECURSIVE MergeOverwrites(_, _, _, _)
MergeOverwrites(seed, lib, new_rules, i) ==
    IF i > Len(new_rules) THEN lib
    ELSE MergeOverwrites(seed, Put(lib, new_rules[i].k, new_rules[i].v), new_rules, i + 1)

\* The merge loop of merge_rules over new_rules.items(), from entry i on
RECURSIVE MergeFrom(_, _, _, _)
MergeFrom(seed, lib, new_rules, i) ==
    IF i > Len(new_rules) THEN lib
    ELSE LET alg == new_rules[i].k
             patterns == new_rules[i].v
         IN  IF alg \in Keys(lib)
             THEN MergeFrom(seed,
                            Put(lib, alg, JList(ListOfSet(seed, Range(Get(lib, alg).v \o patterns.v)))),
                            new_rules, i + 1)
             ELSE MergeFrom(seed, Put(lib, alg, patterns), new_rules, i + 1)

\* load_custom_rules gets past its checks: the file exists, parses and validates
LoadAccepts(content) ==
    /\ content.t \notin {"absent", "malformed"}
    /\ _validate_rules(content)

\* merge_rules gets past its checks: preview, dict test, validation
MergeAccepts(content) ==
    /\ content.t # "absent"
    /\ _view_rules_file(content)
    /\ content.t = "dict"
    /\ _validate_rules(content)

-----------------------------------------------------------------------------
(* Rule-store operations.  confirm is the user's answer to the yes/no prompt. *)

Paths == {"rules.json", "current_rules.json"}

Returned(op, path, ok) == [op |-> op, path |-> path, ok |-> ok]

\* a default load out of one shared dict whose lists a merge has extended in
\* place: the built-in names, each with the list the library holds for it
LoadDefaultSharedLists ==
    /\ algorithms' =
           [i \in 1..Len(DefaultRules) |->
               IF DefaultRules[i].k \in Keys(algorithms)
               THEN [k |-> DefaultRules[i].k, v |-> Get(algorithms, DefaultRules[i].k)]
               ELSE DefaultRules[i]]
    /\ loaded_rules_path' = DefaultRulesPath
    /\ last' = Returned("default", "", TRUE)
    /\ UNCHANGED <<hash_seed, files, crawlVars, detectVars>>

\* menu entry 6: _load_default_rules
LoadDefault ==
    /\ algorithms' = DefaultRules
    /\ loaded_rules_path' = DefaultRulesPath
    /\ last' = Returned("default", "", TRUE)
    /\ UNCHANGED <<hash_seed, files, crawlVars, detectVars>>

\* load_custom_rules with its two assignments ahead of the confirm prompt
LoadBeforeConfirm(file_path, confirm) ==
    LET content == ReadJson(files[file_path])
    IN  /\ IF LoadAccepts(content)
           THEN /\ algorithms' = content.v
                /\ loaded_rules_path' = file_path
                /\ last' = Returned("load", file_path, confirm)
           ELSE /\ UNCHANGED <<algorithms, loaded_rules_path>>
                /\ last' = Returned("load", file_path, FALSE)
        /\ UNCHANGED <<hash_seed, files, crawlVars, detectVars>>

\* dict.update: the entries of new_rules put into lib
RECURSIVE Update(_, _, _)
Update(lib, new_rules, i) ==
    IF i > Len(new_rules) THEN lib
    ELSE Update(Put(lib, new_rules[i].k, new_rules[i].v), new_rules, i + 1)

\* load_custom_rules with self.algorithms.update(rules) for the assignment
LoadUpdates(file_path, confirm) ==
    LET content == ReadJson(files[file_path])
    IN  /\ IF confirm /\ LoadAccepts(content)
           THEN /\ algorithms' = Update(algorithms, content.v, 1)
                /\ loaded_rules_path' = file_path
                /\ last' = Returned("load", file_path, TRUE)
           ELSE /\ UNCHANGED <<algorithms, loaded_rules_path>>
                /\ last' = Returned("load", file_path, FALSE)
        /\ UNCHANGED <<hash_seed, files, crawlVars, detectVars>>

\* load_custom_rules(file_path)
LoadCustomRules(file_path, confirm) ==
    LET content == ReadJson(files[file_path])
    IN  /\ IF confirm /\ LoadAccepts(content)
           THEN /\ algorithms' = content.v
                /\ loaded_rules_path' = file_path
                /\ last' = Returned("load", file_path, TRUE)
           ELSE /\ UNCHANGED <<algorithms, loaded_rules_path>>
                /\ last' = Returned("load", file_path, FALSE)
        /\ UNCHANGED <<hash_seed, files, crawlVars, detectVars>>

\* merge_rules(file_path)
MergeRules(file_path, confirm) ==
    LET content == ReadJson(files[file_path])
    IN  /\ IF confirm /\ MergeAccepts(content)
           THEN /\ algorithms' = MergeFrom(hash_seed, algorithms, content.v, 1)
                /\ last' = Returned("merge", file_path, TRUE)
           ELSE /\ UNCHANGED algorithms
                /\ last' = Returned("merge", file_path, FALSE)
        /\ UNCHANGED <<loaded_rules_path, hash_seed, files, crawlVars, detectVars>>

\* save_current_rules(output_path); outcome is what the file system does:
\* the write succeeds, open fails, or the write breaks off after open truncated
\* the file
SaveCurrentRules(output_path, confirm, outcome) ==
    /\ IF confirm /\ outcome = "written"
       THEN /\ files' = [files EXCEPT ![output_path] = TextFile(json_dumps(JDict(algorithms)))]
            /\ last' = Returned("save", output_path, TRUE)
       ELSE /\ files' = IF confirm /\ outcome = "write_failed"
                        THEN [files EXCEPT ![output_path] = TextFile(<<>>)]
                        ELSE files
            /\ last' = Returned("save", output_path, FALSE)
    /\ UNCHANGED <<algorithms, loaded_rules_path, hash_seed, crawlVars, detectVars>>

-----------------------------------------------------------------------------
(* The rule files the model reads *)

\* what a rule file may hold where a pattern belongs: a pattern of the
\* default library, a new one, one that does not compile
PatternItems == {JStr("\\bmd5\\b"), JStr("x"), JStr("not a valid ( regex")}

AlgNames == {"MD5", "NEW"}

Total(d) == IF Len(d) = 0 THEN 0
            ELSE IF Len(d) = 1 THEN Len(d[1].v.v)
            ELSE Len(d[1].v.v) + Len(d[2].v.v)

\* JSON objects of no, one or two members (json.load keeps one value per key)
\* that hold at most MaxPats patterns in all; an empty list only as the one
\* member of an object
RuleDicts ==
    LET lists == {JList(ps) : ps \in SeqsUpTo(PatternItems, MaxPats)}
        entries == [k : AlgNames, v : lists]
    IN  {JDict(d) : d \in {e \in SeqsUpTo(entries, Cardinality(AlgNames)) :
                              /\ \A i, j \in 1..Len(e) : i # j => e[i].k # e[j].k
                              /\ Len(e) > 1 => \A i \in 1..Len(e) : e[i].v.v # <<>>
                              /\ Total(e) <= MaxPats}}

\* files of the wrong shape: no object, a value that is no list, a pattern that
\* is no string
IllTyped ==
    { JList(<<>>),
      JDict(<<[k |-> "MD5", v |-> JStr("x")]>>),
      JDict(<<[k |-> "MD5", v |-> JList(<<JStr("x"), JNum(1)>>)]>>) }

\* text that is no JSON: an object that is not closed
Truncated == TextFile(<<Punct("{"), StrLit("MD5"), Punct(":")>>)

RuleFileContents ==
    {NoFile, Truncated} \cup {TextFile(json_dumps(obj)) : obj \in IllTyped \cup RuleDicts}

\* the salts the model runs the process with: the hashes ascend or descend
\* with the order of Hashable
HashSeeds == {1, Len(Hashable)}

SaveOutcomes == {"written", "open_failed", "write_failed"}

\* the crawler and the detector at rest
CrawlIdle ==
    /\ pc = "idle"
    /\ max_depth = 1
    /\ web = <<>>
    /\ visited = {}
    /\ results = <<>>
    /\ stack = <<>>
    /\ fetched = <<>>

DetectIdle ==
    /\ js_code = <<>>
    /\ detected = [calls |-> 0, source |-> "", records |-> <<>>]
    /\ current_detection_results = <<>>

\* the state __init__ leaves
RulesInit ==
    /\ algorithms = DefaultRules
    /\ loaded_rules_path = DefaultRulesPath
    /\ hash_seed \in HashSeeds
    /\ last = Returned("init", "", TRUE)

InitRules ==
    /\ RulesInit
    /\ files \in {f \in [Paths -> RuleFileContents] : f["current_rules.json"] = NoFile}
    /\ CrawlIdle
    /\ DetectIdle

\* where the model saves the library: the menu's default destination
SavePaths == {"current_rules.json"}

NextRules ==
    \/ LoadDefault
    \/ \E file_path \in Paths, confirm \in BOOLEAN : LoadCustomRules(file_path, confirm)
    \/ \E file_path \in Paths, confirm \in BOOLEAN : MergeRules(file_path, confirm)
    \/ \E output_path \in SavePaths, confirm \in BOOLEAN, outcome \in SaveOutcomes :
           SaveCurrentRules(output_path, confirm, outcome)

SpecRules == InitRules /\ [][NextRules]_vars

-----------------------------------------------------------------------------
(* Merging two rule files *)

MergePaths == {"rules.json", "extra_rules.json"}

\* the rule files merge_rules accepts
MergeableDicts == {d \in RuleDicts : _validate_rules(d)}

\* a second rule file: it shares algorithms and patterns with the first and
\* with the default library, or with neither
ExtraRules ==
    { JDict(<<Entry("NEW", <<"\\bmd5\\b">>), Entry("MD5", <<"x">>)>>),
      JDict(<<Entry("MD5", <<"x", "x">>)>>),
      JDict(<<Entry("NEW", <<"x">>)>>),
      JDict(<<>>) }

InitMerge ==
    /\ RulesInit
    /\ \E first \in MergeableDicts, second \in ExtraRules :
           files = [path \in MergePaths |->
                       IF path = "rules.json" THEN TextFile(json_dumps(first))
                       ELSE TextFile(json_dumps(second))]
    /\ CrawlIdle
    /\ DetectIdle

NextMerge ==
    \/ LoadDefault
    \/ \E file_path \in MergePaths, confirm \in BOOLEAN : LoadCustomRules(file_path, confirm)
    \/ \E file_path \in MergePaths, confirm \in BOOLEAN : MergeRules(file_path, confirm)

SpecMerge == InitMerge /\ [][NextMerge]_vars

-----------------------------------------------------------------------------
(* Viewing a rule file without loading it *)

\* view_rules_file(file_path): menu entry 4
ViewRulesFile(file_path) ==
    /\ last' = Returned("view", file_path, _view_rules_file(ReadJson(files[file_path])))
    /\ UNCHANGED <<algorithms, loaded_rules_path, hash_seed, files, crawlVars, detectVars>>

\* more JSON values of the wrong shape: no container at all, an object or a
\* number where the list belongs, a list where the pattern belongs
Misshapen ==
    { JStr("x"),
      JNum(1),
      JDict(<<[k |-> "MD5", v |-> JDict(<<>>)]>>),
      JDict(<<Entry("MD5", <<"x">>), [k |-> "NEW", v |-> JNum(1)]>>),
      JDict(<<[k |-> "MD5", v |-> JList(<<JList(<<>>)>>)]>>) }

InitValidate ==
    /\ RulesInit
    /\ files \in [Paths -> RuleFileContents \cup {TextFile(json_dumps(obj)) : obj \in Misshapen}]
    /\ files["current_rules.json"] \in {NoFile, TextFile(json_dumps(JDict(DefaultRules)))}
    /\ CrawlIdle
    /\ DetectIdle

NextValidate == \E file_path \in Paths : ViewRulesFile(file_path)

SpecValidate == InitValidate /\ [][NextValidate]_vars

-----------------------------------------------------------------------------
(* Detection of one code text *)

\* the symbols the code texts of the model are made of
CodeAlphabet == {"md5", "MD5", "x", "/", "*", "\n", "\""}

\* a library a rule file can load: one algorithm with two patterns that hit
\* the same symbol, a second algorithm that shares a pattern with it
CustomRules ==
    << Entry("MD5", <<"md5", "\\bmd5\\b">>), Entry("NEW", <<"x", "md5">>) >>

DetectLibraries == {DefaultRules, CustomRules}

Sources == {"a.js"}

\* const h = require('crypto').createHash('md5')
ScenarioA ==
    <<"const", " ", "h", " ", "=", " ", "require", "(", "'", "crypto", "'", ")", ".",
      "createHash", "(", "'", "md5", "'", ")">>

\* /*md5//*/
BlockWithLineMark == <<"/", "*", "md5", "/", "/", "*", "/">>

\* x\rmd5: a carriage return with no line feed after it
CarriageReturnLine == <<"x", "\r", "md5">>

\* a block comment over two lines, md5 after it on the second line
BlockOverLines == <<"/", "*", "\n", "*", "/", "md5">>

\* two lines, a line comment on each
TwoLineComments == <<"md5", "/", "/", "x", "\n", "x", "/", "/", "x">>

\* code texts longer than MaxCodeLen, or of symbols outside CodeAlphabet, that
\* the model also scans
ScenarioCodes ==
    {ScenarioA, BlockWithLineMark, CarriageReturnLine, BlockOverLines, TwoLineComments}

InitDetect ==
    /\ algorithms \in DetectLibraries
    /\ loaded_rules_path = DefaultRulesPath
    /\ hash_seed = 1
    /\ files = [path \in Paths |-> NoFile]
    /\ last = Returned("init", "", TRUE)
    /\ CrawlIdle
    /\ js_code \in SeqsUpTo(CodeAlphabet, MaxCodeLen) \cup ScenarioCodes
    /\ detected = [calls |-> 0, source |-> "", records |-> <<>>]
    /\ current_detection_results = <<>>

\* detect_in_code(js_code, source), as detect_local_file calls it
DetectInCode(source) ==
    /\ detected.calls < MaxCalls
    /\ detected' = [calls |-> detected.calls + 1, source |-> source,
                    records |-> detect_in_code(algorithms, js_code, source)]
    /\ UNCHANGED <<ruleVars, crawlVars, js_code, current_detection_results>>

NextDetect == \E source \in Sources : DetectInCode(source)

SpecDetect == InitDetect /\ [][NextDetect]_vars

-----------------------------------------------------------------------------
(* Saving the detection results.  The files of this part are the key files *)
(* of the working directory.                                                *)

\* the cap of _get_unique_key_filename on its counter
MaxFiles == 1000

\* f"{base_name}.{ext}" for 0, f"{base_name}_{counter}.{ext}" for a counter
KeyName(counter) ==
    IF counter = 0 THEN "key.json" ELSE "key_" \o ToString(counter) \o ".json"

KeyNames == {KeyName(counter) : counter \in 0..MaxFiles}

\* the exception of _get_unique_key_filename
Raised == "Exception"

\* a filename function that always answers key.json
KeyFilenameFixed(dir) == KeyName(0)

\* a counter loop that gives up when the counter reaches the cap
CountUpStopsEarly(dir, counter) ==
    IF \A n \in counter..(MaxFiles - 1) : dir[KeyName(n)] # NoFile THEN Raised
    ELSE KeyName(CHOOSE n \in counter..(MaxFiles - 1) :
                     /\ dir[KeyName(n)] = NoFile
                     /\ \A m \in counter..(n - 1) : dir[KeyName(m)] # NoFile)

\* the while loop of _get_unique_key_filename, begun at counter: it leaves at
\* the first counter whose name does not exist, and raises when the names of
\* all counters up to the cap exist
CountUp(dir, counter) ==
    IF \A n \in counter..MaxFiles : dir[KeyName(n)] # NoFile THEN Raised
    ELSE KeyName(CHOOSE n \in counter..MaxFiles :
                     /\ dir[KeyName(n)] = NoFile
                     /\ \A m \in counter..(n - 1) : dir[KeyName(m)] # NoFile)

_get_unique_key_filename(dir) ==
    IF dir[KeyName(0)] = NoFile THEN KeyName(0) ELSE CountUp(dir, 1)

\* a text as the str it is: its symbols one after the other
RECURSIVE TextString(_)
TextString(text) == IF text = <<>> THEN "" ELSE Head(text) \o TextString(Tail(text))

\* the str _get_context returns: "\n".join of the "Line <n>: <text>" lines
RECURSIVE ContextString(_)
ContextString(context) ==
    IF context = <<>> THEN ""
    ELSE "Line " \o ToString(Head(context).n) \o ": " \o TextString(Head(context).text)
             \o (IF Len(context) > 1 THEN "\n" ELSE "") \o ContextString(Tail(context))

\* a result dict of detect_in_code as a JSON object
RecordJson(r) ==
    JDict(<< [k |-> "algorithm", v |-> JStr(r.algorithm)],
             [k |-> "source", v |-> JStr(r.source)],
             [k |-> "line", v |-> JNum(r.line)],
             [k |-> "match", v |-> JStr(TextString(r.match))],
             [k |-> "context", v |-> JStr(ContextString(r.context))] >>)

\* the dict save_detected_keys dumps
KeyDocument(timestamp, recs) ==
    JDict(<< [k |-> "timestamp", v |-> JStr(timestamp)],
             [k |-> "count", v |-> JNum(Len(recs))],
             [k |-> "results", v |-> JList([i \in 1..Len(recs) |-> RecordJson(recs[i])])] >>)

\* what time.strftime("%Y-%m-%d %H:%M:%S") answers during the session
Timestamps == {"2026-11-04 10:00:00", "2026-11-04 10:00:01"}

\* the one-line code texts whose results the session displays: no record and
\* two records
SessionCodes == {<<"x">>, <<"md5", " ", "des">>}

SessionResults == {detect_in_code(DefaultRules, code, "a.js") : code \in SessionCodes}

\* a file that was in the directory before the session; the session never
\* reads it, so the text it holds is the shortest JSON text
OldKeyFile == TextFile(json_dumps(JDict(<<>>)))

\* the working directory with key files under the names of the counters in taken
Directory(taken) ==
    [name \in KeyNames |-> IF name \in {KeyName(n) : n \in taken} THEN OldKeyFile ELSE NoFile]

\* the directories the session starts in: empty, filled from key.json on,
\* filled with one name free, and with names free behind taken ones
KeyDirectories ==
    {{}, {1}, {0, 2}, {0, 1, 3}}
        \cup {0..n : n \in {0, 1, MaxFiles - 2, MaxFiles - 1, MaxFiles}}
        \cup {(0..MaxFiles) \ {n} : n \in {0, 1, 2}}

\* the key files this session has made
SavesMade == Cardinality({name \in KeyNames : files[name] \notin {NoFile, OldKeyFile}})

\* io is what the disk did: "none" when the call did not come to open()
SaveReturned(filename, ok, io) ==
    [op |-> "save_detected_keys", path |-> filename, ok |-> ok, io |-> io]

\* display_results(results)
DisplayResults(recs) ==
    /\ current_detection_results' = recs
    /\ last' = Returned("display_results", "", TRUE)
    /\ UNCHANGED <<algorithms, loaded_rules_path, hash_seed, files, crawlVars, js_code, detected>>

\* save_detected_keys(); outcome is what open() and json.dump() meet, timestamp
\* what the clock says
SaveDetectedKeys(outcome, timestamp) ==
    /\ SavesMade < MaxSaves
    /\ IF current_detection_results = <<>>
       THEN /\ last' = SaveReturned("", FALSE, "none")
            /\ UNCHANGED files
       ELSE \E filename \in {_get_unique_key_filename(files)} :
                IF filename = Raised
                THEN /\ last' = SaveReturned("", FALSE, "none")
                     /\ UNCHANGED files
                ELSE CASE outcome = "open_failed" ->
                              /\ last' = SaveReturned(filename, FALSE, outcome)
                              /\ UNCHANGED files
                       [] outcome = "write_failed" ->
                              /\ files' = [files EXCEPT ![filename] = TextFile(<<>>)]
                              /\ last' = SaveReturned(filename, FALSE, outcome)
                       [] outcome = "written" ->
                              /\ files' = [files EXCEPT ![filename] =
                                     TextFile(json_dumps(KeyDocument(timestamp,
                                                  current_detection_results)))]
                              /\ last' = SaveReturned(filename, TRUE, outcome)
    /\ UNCHANGED <<algorithms, loaded_rules_path, hash_seed, crawlVars, detectVars>>

InitKeys ==
    /\ algorithms = DefaultRules
    /\ loaded_rules_path = DefaultRulesPath
    /\ hash_seed = 1
    /\ files \in {Directory(taken) : taken \in KeyDirectories}
    /\ last = Returned("init", "", TRUE)
    /\ CrawlIdle
    /\ DetectIdle

NextKeys ==
    \/ \E recs \in SessionResults : DisplayResults(recs)
    \/ \E outcome \in SaveOutcomes, timestamp \in Timestamps : SaveDetectedKeys(outcome, timestamp)

SpecKeys == InitKeys /\ [][NextKeys]_vars

-----------------------------------------------------------------------------
(* The crawler.  A URL of the model stands for an absolute URL on one host. *)

URLs == {"p", "a.js", "b.js", "q", "c.js", "d.js"}

\* the src attributes the script tags of the model carry
Srcs == {"a.js", "b.js", "p"}

\* requests.compat.urljoin(current_url, js_src): every src of the model is an
\* absolute URL, which urljoin returns as it is
urljoin(current_url, js_src) == js_src

\* js_url.endswith('.js')
EndsWithJs(url) == url \in {"a.js", "b.js", "c.js", "d.js"}

\* response.text of a URL, as detect_in_code gets it for an external script
ResponseText(url) ==
    CASE url = "a.js" -> <<"createCipher", "(", "'", "des", "'", ")">>
      [] url = "b.js" -> <<"md5", "/", "MD5", "\n", "des">>
      [] OTHER -> <<"x">>

\* tag.string of the <script> elements html.parser finds in the response of a
\* URL, in document order (<<>> for an element without text)
ScriptStrings(url) ==
    CASE url = "p" -> << <<" ", "btoa", "(", "x", ")", "\n">>, <<>>, <<"md5">> >>
      [] url = "b.js" -> << <<"des">> >>
      [] url = "q" -> << <<"x">> >>
      [] OTHER -> <<>>

\* "\n".join(js_blocks)
RECURSIVE JoinLines(_)
JoinLines(blocks) ==
    IF Len(blocks) = 0 THEN <<>>
    ELSE IF Len(blocks) = 1 THEN blocks[1]
    ELSE blocks[1] \o <<"\n">> \o JoinLines(Tail(blocks))

\* the js_blocks of _extract_js_from_html: the stripped text of every script
\* element that has text
RECURSIVE JsBlocks(_)
JsBlocks(strings) ==
    IF strings = <<>> THEN <<>>
    ELSE (IF Head(strings) # <<>> THEN <<strip(Head(strings))>> ELSE <<>>)
             \o JsBlocks(Tail(strings))

_extract_js_from_html(url) == JoinLines(JsBlocks(ScriptStrings(url)))

\* the source tags of the records of a crawl
InlineSource(url) == "inline:" \o url
ExternalSource(url) == "external:" \o url

\* the depths _handle_crawl accepts
MinDepth == 1
MaxDepth == 3

\* the test at the head of _crawl without its depth bound
SkippedIfVisited(current_url, depth) == current_url \in visited

\* the test at the head of _crawl: this node is not processed
Skipped(current_url, depth) == depth > max_depth \/ current_url \in visited

\* the test of the script loop: this link is fetched
Followed(js_url) == EndsWithJs(js_url) /\ js_url \notin visited

Frame(url, depth) == [url |-> url, depth |-> depth, at |-> "enter", tags |-> <<>>, i |-> 1]

Top == stack[Len(stack)]
Pop == SubSeq(stack, 1, Len(stack) - 1)
SetTop(frame) == [stack EXCEPT ![Len(stack)] = frame]

Fetch(url, kind, ok) == [url |-> url, kind |-> kind, ok |-> ok, depth |-> Top.depth]

\* the script tags of a page are fixed when the page is first parsed
Unknown == [known |-> FALSE, srcs |-> <<>>]
LinksUsed ==
    Len(web["p"].srcs) + Len(web["a.js"].srcs) + Len(web["b.js"].srcs) + Len(web["q"].srcs)
        + Len(web["c.js"].srcs) + Len(web["d.js"].srcs)

\* crawl_and_detect(url, max_depth): the first call _crawl(url, depth=1)
CrawlStart(url, depth) ==
    /\ pc = "idle"
    /\ pc' = "crawling"
    /\ max_depth' = depth
    /\ visited' = {}
    /\ results' = <<>>
    /\ stack' = <<Frame(url, 1)>>
    /\ UNCHANGED <<web, fetched, ruleVars, detectVars>>

\* _crawl without its first two statements: no early return, no visited.add
CrawlEnterUnguarded ==
    /\ pc = "crawling"
    /\ stack # <<>>
    /\ Top.at = "enter"
    /\ stack' = SetTop([Top EXCEPT !.at = "fetch"])
    /\ UNCHANGED <<pc, max_depth, web, visited, results, fetched, ruleVars, detectVars>>

\* _crawl, its first lines: return, or mark the URL visited
CrawlEnter ==
    /\ pc = "crawling"
    /\ stack # <<>>
    /\ Top.at = "enter"
    /\ IF Skipped(Top.url, Top.depth)
       THEN /\ stack' = Pop
            /\ UNCHANGED visited
       ELSE /\ visited' = visited \cup {Top.url}
            /\ stack' = SetTop([Top EXCEPT !.at = "fetch"])
    /\ UNCHANGED <<pc, max_depth, web, results, fetched, ruleVars, detectVars>>

\* _crawl, the page: session.get fails (the outer except ends this call), or
\* the inline scripts are scanned and the script tags with src collected
CrawlPage(ok, srcs) ==
    /\ pc = "crawling"
    /\ stack # <<>>
    /\ Top.at = "fetch"
    /\ fetched' = Append(fetched, Fetch(Top.url, "page", ok))
    /\ IF ok
       THEN LET code == _extract_js_from_html(Top.url)
            IN  /\ IF web[Top.url].known
                   THEN srcs = web[Top.url].srcs /\ UNCHANGED web
                   ELSE /\ LinksUsed + Len(srcs) <= MaxLinks
                        /\ web' = [web EXCEPT ![Top.url] = [known |-> TRUE, srcs |-> srcs]]
                /\ results' = IF code # <<>>
                              THEN results \o detect_in_code(algorithms, code, InlineSource(Top.url))
                              ELSE results
                /\ stack' = SetTop([Top EXCEPT !.at = "scripts", !.tags = srcs, !.i = 1])
       ELSE /\ srcs = <<>>
            /\ stack' = Pop
            /\ UNCHANGED <<web, results>>
    /\ UNCHANGED <<pc, max_depth, visited, ruleVars, detectVars>>

\* a script loop that leaves the scan of a script to the _crawl call for it
ScriptFetchedCrawlOnly(js_url) ==
    /\ UNCHANGED results
    /\ stack' = Append(SetTop([Top EXCEPT !.i = @ + 1]), Frame(js_url, Top.depth + 1))

\* what the script loop does after a script came back: scan it, then call
\* _crawl(js_url, depth + 1)
ScriptFetched(js_url) ==
    /\ results' = results \o detect_in_code(algorithms, ResponseText(js_url), ExternalSource(js_url))
    /\ stack' = Append(SetTop([Top EXCEPT !.i = @ + 1]), Frame(js_url, Top.depth + 1))

\* a failed session.get of a script that ends the loop over the script tags
\* (the try around the loop, not inside it)
ScriptFailedEndsLoop(js_url) ==
    /\ stack' = Pop
    /\ UNCHANGED results

\* what the script loop does when session.get of a script fails: the inner
\* except reports it and the loop goes on
ScriptFailed(js_url) ==
    /\ stack' = SetTop([Top EXCEPT !.i = @ + 1])
    /\ UNCHANGED results

\* _crawl, one round of the loop over the script tags
CrawlScript(ok) ==
    /\ pc = "crawling"
    /\ stack # <<>>
    /\ Top.at = "scripts"
    /\ Top.i <= Len(Top.tags)
    /\ LET js_url == urljoin(Top.url, Top.tags[Top.i])
       IN  IF Followed(js_url)
           THEN /\ Len(stack) < MaxStack
                /\ fetched' = Append(fetched, Fetch(js_url, "script", ok))
                /\ IF ok THEN ScriptFetched(js_url) ELSE ScriptFailed(js_url)
           ELSE /\ ok
                /\ stack' = SetTop([Top EXCEPT !.i = @ + 1])
                /\ UNCHANGED <<results, fetched>>
    /\ UNCHANGED <<pc, max_depth, web, visited, ruleVars, detectVars>>

\* _crawl returns after the last script tag
CrawlReturn ==
    /\ pc = "crawling"
    /\ stack # <<>>
    /\ Top.at = "scripts"
    /\ Top.i > Len(Top.tags)
    /\ stack' = Pop
    /\ UNCHANGED <<pc, max_depth, web, visited, results, fetched, ruleVars, detectVars>>

\* crawl_and_detect returns results once the first _crawl has returned
CrawlDone ==
    /\ pc = "crawling"
    /\ stack = <<>>
    /\ pc' = "done"
    /\ UNCHANGED <<max_depth, web, visited, results, stack, fetched, ruleVars, detectVars>>

StartUrls == {"p", "a.js"}

InitCrawl ==
    /\ algorithms = DefaultRules
    /\ loaded_rules_path = DefaultRulesPath
    /\ hash_seed = 1
    /\ files = [path \in Paths |-> NoFile]
    /\ last = Returned("init", "", TRUE)
    /\ pc = "idle"
    /\ max_depth = MinDepth
    /\ web = [u \in URLs |-> Unknown]
    /\ visited = {}
    /\ results = <<>>
    /\ stack = <<>>
    /\ fetched = <<>>
    /\ DetectIdle

NextCrawl ==
    \/ \E url \in StartUrls, depth \in MinDepth..MaxDepth : CrawlStart(url, depth)
    \/ CrawlEnter
    \/ \E ok \in BOOLEAN, srcs \in SeqsUpTo(Srcs, MaxLinks) : CrawlPage(ok, srcs)
    \/ \E ok \in BOOLEAN : CrawlScript(ok)
    \/ CrawlReturn
    \/ CrawlDone

SpecCrawl == InitCrawl /\ [][NextCrawl]_vars

\* the interpreter runs crawl_and_detect to its end: no step waits for another
FairCrawl == SpecCrawl /\ WF_vars(NextCrawl)

\* crawls that start at a page whose inline script holds nothing to report
CleanPages == {"q"}

NextCrawlClean ==
    \/ \E url \in CleanPages, depth \in MinDepth..MaxDepth : CrawlStart(url, depth)
    \/ CrawlEnter
    \/ \E ok \in BOOLEAN, srcs \in SeqsUpTo(Srcs, MaxLinks) : CrawlPage(ok, srcs)
    \/ \E ok \in BOOLEAN : CrawlScript(ok)
    \/ CrawlReturn
    \/ CrawlDone

SpecCrawlClean == InitCrawl /\ [][NextCrawlClean]_vars

\* a site whose script b.js is linked from the page p and from the script a.js
\* of that page: p names its scripts in the order first, second; b.js leads on
\* to c.js and c.js to d.js
SiteOf(first, second) ==
    [u \in URLs |->
        [known |-> TRUE,
         srcs |-> CASE u = "p" -> <<first, second>>
                    [] u = "a.js" -> <<"b.js">>
                    [] u = "b.js" -> <<"c.js">>
                    [] u = "c.js" -> <<"d.js">>
                    [] OTHER -> <<>>]]

Sites == {SiteOf("a.js", "b.js"), SiteOf("b.js", "a.js")}

InitCrawlSite ==
    /\ algorithms = DefaultRules
    /\ loaded_rules_path = DefaultRulesPath
    /\ hash_seed = 1
    /\ files = [path \in Paths |-> NoFile]
    /\ last = Returned("init", "", TRUE)
    /\ pc = "idle"
    /\ max_depth = MinDepth
    /\ web \in Sites
    /\ visited = {}
    /\ results = <<>>
    /\ stack = <<>>
    /\ fetched = <<>>
    /\ DetectIdle

NextCrawlSite ==
    \/ \E depth \in MinDepth..MaxDepth : CrawlStart("p", depth)
    \/ CrawlEnter
    \/ \E ok \in BOOLEAN, srcs \in {web[u].srcs : u \in URLs} : CrawlPage(ok, srcs)
    \/ \E ok \in BOOLEAN : CrawlScript(ok)
    \/ CrawlReturn
    \/ CrawlDone

SpecCrawlSite == InitCrawlSite /\ [][NextCrawlSite]_vars

-----------------------------------------------------------------------------
(* Properties of the crawler *)

\* the URLs the script tags of a parsed page point to
LinksOf(url) == {urljoin(url, web[url].srcs[i]) : i \in 1..Len(web[url].srcs)}

\* the URLs at most n script links away from url
RECURSIVE Within(_, _)
Within(url, n) ==
    IF n = 0 THEN {url}
    ELSE LET near == Within(url, n - 1)
         IN  near \cup UNION {LinksOf(u) : u \in near}

\* the URL crawl_and_detect was called with: the first one it fetches
StartUrl == fetched[1].url

NoKeyTwice(recs) ==
    \A i, j \in 1..Len(recs) : i # j => Key(recs[i]) # Key(recs[j])

Failed == {i \in 1..Len(fetched) : ~fetched[i].ok}

\* C1: for every web (cycles and self-links included), every outcome of every
\* fetch and every max_depth in 1..3, a crawl that was started completes and
\* returns its result list.
CrawlTerminates == (pc = "crawling") ~> (pc = "done")

\* a crawl of depth 3 that returned after it met a script that links to itself
\* and a fetch that failed
CrawlTerminatesWitness ==
    /\ pc = "done"
    /\ max_depth = MaxDepth
    /\ web["a.js"].known
    /\ "a.js" \in LinksOf("a.js")
    /\ Failed # {}

\* C2: during crawl(startUrl, d) no URL is fetched, and none is the source of a
\* record, unless at most d script links lead to it from startUrl, and no URL
\* is processed as a crawl node at a depth greater than d.
CrawlWithinDepth ==
    fetched # <<>> =>
        LET near == Within(StartUrl, max_depth)
        IN  /\ \A i \in 1..Len(fetched) :
                   /\ fetched[i].url \in near
                   /\ fetched[i].kind = "page" => fetched[i].depth <= max_depth
            /\ \A i \in 1..Len(results) :
                   results[i].source \in {InlineSource(u) : u \in near}
                                            \cup {ExternalSource(u) : u \in near}
            /\ \A i \in 1..Len(stack) :
                   stack[i].at # "enter" => stack[i].depth <= max_depth

\* _crawl was called for a script at depth max_depth + 1, after the script was
\* fetched and scanned at max_depth links from the start: the call returns at once
CrawlWithinDepthWitness ==
    /\ pc = "crawling"
    /\ max_depth = 2
    /\ stack # <<>>
    /\ Top.at = "enter"
    /\ Top.depth = max_depth + 1
    /\ Top.url \notin visited
    /\ \E i \in 1..Len(results) : results[i].source = ExternalSource(Top.url)

\* C3: during one crawl each distinct URL is fetched over the network at most once.
NoUrlFetchedTwice ==
    \A i, j \in 1..Len(fetched) : i # j => fetched[i].url # fetched[j].url

\* C4: the record list one crawl returns holds at most one record per
\* (algorithm, source, line).
CrawlRecordsUnique == pc = "done" => NoKeyTwice(results)

\* the records the fetches so far must have left, in the order of the fetches
RECURSIVE RecordsOf(_, _)
RecordsOf(log, i) ==
    IF i > Len(log) THEN <<>>
    ELSE LET url == log[i].url
             code == _extract_js_from_html(url)
             found == IF ~log[i].ok THEN <<>>
                      ELSE IF log[i].kind = "script"
                           THEN detect_in_code(algorithms, ResponseText(url), ExternalSource(url))
                           ELSE IF code # <<>>
                                THEN detect_in_code(algorithms, code, InlineSource(url))
                                ELSE <<>>
         IN  found \o RecordsOf(log, i + 1)

\* C6: a failed fetch of a page or of an external script abandons only that
\* branch: the result holds the records of every fetch that succeeded, and
\* every .js link of every page that was fetched was itself fetched or was
\* already visited, also when it comes after a link whose fetch failed.
FailedFetchIsolated ==
    /\ results = RecordsOf(fetched, 1)
    /\ pc = "done" =>
           \A i \in 1..Len(fetched) :
               (fetched[i].kind = "page" /\ fetched[i].ok) =>
                   \A js_url \in LinksOf(fetched[i].url) :
                       EndsWithJs(js_url) =>
                           \/ js_url \in visited
                           \/ \E j \in 1..Len(fetched) : /\ j > i
                                                         /\ fetched[j].kind = "script"
                                                         /\ fetched[j].url = js_url

\* a crawl of depth 1 whose page links to a.js, whose fetch failed, and then to
\* b.js, whose records are in the result
FailedFetchIsolatedWitness ==
    /\ pc = "done"
    /\ max_depth = 1
    /\ Len(fetched) = 3
    /\ fetched[2] = [url |-> "a.js", kind |-> "script", ok |-> FALSE, depth |-> 1]
    /\ fetched[3] = [url |-> "b.js", kind |-> "script", ok |-> TRUE, depth |-> 1]
    /\ \E i \in 1..Len(results) : results[i].source = ExternalSource("b.js")

-----------------------------------------------------------------------------
(* Properties of detect_in_code *)

\* C5: no two records one detect_in_code call returns share (algorithm,
\* source, line), whatever the code, the source and the library.
DetectRecordsUnique == NoKeyTwice(detected.records)

\* a call that found a line several matches hit, of one pattern or of several
\* patterns of one algorithm, and lines that differ
DetectRecordsUniqueWitness ==
    LET cleaned == remove_comments(js_code)
        raw == AlgorithmRecords(algorithms, 1, detected.source, cleaned, splitlines(cleaned))
    IN  /\ detected.calls > 0
        /\ Len(raw) >= Len(detected.records) + 2
        /\ \E i, j \in 1..Len(detected.records) :
               detected.records[i].line # detected.records[j].line

-----------------------------------------------------------------------------
(* Properties of the rule library *)

\* a dict of lists of strings that all compile
WellFormed(lib) ==
    \A i \in 1..Len(lib) :
        /\ lib[i].v.t = "list"
        /\ \A j \in 1..Len(lib[i].v.v) :
               /\ lib[i].v.v[j].t = "str"
               /\ lib[i].v.v[j].v \notin NonCompiling

\* the patterns of an algorithm, none for an algorithm that is not there
PatternSet(lib, alg) == IF alg \in Keys(lib) THEN Range(Get(lib, alg).v) ELSE {}

FailedCall(ops) == last.op \in ops /\ ~last.ok

\* C7: after any sequence of loadDefault, load, merge and save with valid or
\* invalid files the live library maps algorithm names to lists of strings
\* that all compile, and no load or merge changes the library unless the file
\* it read is such a mapping.
LibraryStaysValid ==
    /\ [](WellFormed(algorithms))
    /\ [][(last'.op \in {"load", "merge"} /\ algorithms' # algorithms) =>
              (ReadJson(files[last'.path]).t = "dict" /\ WellFormed(ReadJson(files[last'.path]).v))]_vars

\* the library came from a file save wrote, and a merge of a file whose second
\* pattern does not compile was then refused
LibraryStaysValidWitness ==
    /\ loaded_rules_path = "current_rules.json"
    /\ FailedCall({"merge"})
    /\ last.path = "rules.json"
    /\ ReadJson(files["rules.json"]).t = "dict"
    /\ ValidateResult(ReadJson(files["rules.json"])).error = "InvalidPattern"
    /\ ValidateResult(ReadJson(files["rules.json"])).index = 2

\* C8: a load or merge that returns False (no file, malformed JSON, invalid
\* format, a pattern that does not compile, the user declining) leaves the
\* library and the recorded source identifier as they were.
FailedCallChangesNothing ==
    [][(last'.op \in {"load", "merge"} /\ ~last'.ok) =>
           (algorithms' = algorithms /\ loaded_rules_path' = loaded_rules_path)]_vars

\* the user declined the load of a valid file that differs from the library
FailedCallChangesNothingWitness ==
    /\ FailedCall({"load"})
    /\ LoadAccepts(ReadJson(files[last.path]))
    /\ ReadJson(files[last.path]).v # algorithms
    /\ loaded_rules_path # last.path

\* C9: after a successful load(source) the library is exactly the mapping
\* parsed from source and the recorded source identifier is source.
LoadReplaces ==
    (last.op = "load" /\ last.ok) =>
        /\ ReadJson(files[last.path]).t = "dict"
        /\ algorithms = ReadJson(files[last.path]).v
        /\ loaded_rules_path = last.path

\* a load of a file that names only a new algorithm: the built-in ones are gone
LoadReplacesWitness ==
    /\ last.op = "load"
    /\ last.ok
    /\ Keys(algorithms) = {"NEW"}

\* C10: after a successful merge(source) every algorithm has the union of its
\* patterns before the merge and its patterns in source; the algorithms are
\* those of the library and of source together.
MergeIsUnion ==
    [][(last'.op = "merge" /\ last'.ok) =>
           LET source == ReadJson(files[last'.path]).v
           IN  /\ Keys(algorithms') = Keys(algorithms) \cup Keys(source)
               /\ \A alg \in Keys(algorithms') :
                      PatternSet(algorithms', alg) =
                          PatternSet(algorithms, alg) \cup PatternSet(source, alg)]_vars

\* a merge of a file that adds a pattern to MD5, repeats one MD5 has, and
\* brings a new algorithm
MergeIsUnionWitness ==
    /\ last.op = "merge"
    /\ last.ok
    /\ Keys(ReadJson(files[last.path]).v) = {"MD5", "NEW"}
    /\ Keys(algorithms) = Keys(DefaultRules) \cup {"NEW"}
    /\ Cardinality(PatternSet(algorithms, "MD5")) = 3
    /\ Len(Get(algorithms, "MD5").v) = 3

\* the same algorithm names and, for every name, the same patterns
SamePatternSets(lib, other) ==
    /\ Keys(lib) = Keys(other)
    /\ \A alg \in Keys(lib) : PatternSet(lib, alg) = PatternSet(other, alg)

\* C11: merge is idempotent on pattern sets: a successful merge of a file that
\* follows a successful merge of the same file leaves the algorithm names and
\* the pattern set of every algorithm as the first merge left them.
MergeIdempotent ==
    [][(/\ last.op = "merge"
        /\ last.ok
        /\ last'.op = "merge"
        /\ last'.ok
        /\ last'.path = last.path) => SamePatternSets(algorithms', algorithms)]_vars

\* rules.json gives NEW the same pattern twice; the list in the library holds it
\* once, which only a second merge of the file brings about
MergeIdempotentWitness ==
    /\ last.op = "merge"
    /\ last.ok
    /\ last.path = "rules.json"
    /\ "NEW" \in Keys(ReadJson(files["rules.json"]).v)
    /\ Len(Get(ReadJson(files["rules.json"]).v, "NEW").v) = 2
    /\ "NEW" \notin Keys(ReadJson(files["extra_rules.json"]).v)
    /\ "NEW" \in Keys(algorithms)
    /\ Len(Get(algorithms, "NEW").v) = 1

\* C12: merge is commutative on algorithm names and pattern sets: from the same
\* library, merging file A and then file B gives the same names and the same
\* pattern set per algorithm as merging B and then A.
MergeCommutes ==
    [][(last'.op = "merge" /\ last'.ok) =>
           \A other \in DOMAIN files \ {last'.path} :
               MergeAccepts(ReadJson(files[other])) =>
                   \A A \in {ReadJson(files[last'.path]).v}, B \in {ReadJson(files[other]).v} :
                       \A AB \in {MergeFrom(hash_seed, algorithms', B, 1)},
                          BA \in {MergeFrom(hash_seed, MergeFrom(hash_seed, algorithms, B, 1), A, 1)} :
                           SamePatternSets(AB, BA)]_vars

\* both files were merged, each gave NEW a pattern the other does not have
MergeCommutesWitness ==
    /\ last.op = "merge"
    /\ last.ok
    /\ last.path = "extra_rules.json"
    /\ "NEW" \in Keys(ReadJson(files["rules.json"]).v)
    /\ "NEW" \in Keys(ReadJson(files["extra_rules.json"]).v)
    /\ "NEW" \in Keys(algorithms)
    /\ PatternSet(algorithms, "NEW") # PatternSet(ReadJson(files["rules.json"]).v, "NEW")
    /\ PatternSet(algorithms, "NEW") # PatternSet(ReadJson(files["extra_rules.json"]).v, "NEW")
    /\ Keys(algorithms) = Keys(DefaultRules) \cup {"NEW"}

\* C13: save does not change the library, and a successful load of the file a
\* successful save has just written leaves the library with the algorithm
\* names and, per algorithm, the pattern set it had before the save.
SaveLoadRoundTrip ==
    [][/\ last'.op = "save" => algorithms' = algorithms
       /\ (/\ last.op = "save"
           /\ last.ok
           /\ last'.op = "load"
           /\ last'.ok
           /\ last'.path = last.path) => SamePatternSets(algorithms', algorithms)]_vars

\* a library that a merge gave a new algorithm and a third MD5 pattern was
\* saved and read back
SaveLoadRoundTripWitness ==
    /\ last.op = "load"
    /\ last.ok
    /\ last.path \in SavePaths
    /\ loaded_rules_path = last.path
    /\ Keys(algorithms) = Keys(DefaultRules) \cup {"NEW"}
    /\ Len(Get(algorithms, "MD5").v) = 3

\* C14: validate succeeds if and only if the candidate is a mapping (its keys
\* are strings, as the keys of every JSON object are) whose values are lists
\* of strings that all compile: so for every rule file that was viewed.
ValidateIffWellFormed ==
    last.op = "view" =>
        LET candidate == ReadJson(files[last.path])
        IN  last.ok <=> /\ candidate.t = "dict"
                        /\ WellFormed(candidate.v)

\* a file was refused for the pattern of its second algorithm, the first is in order
ValidateIffWellFormedWitness ==
    /\ last.op = "view"
    /\ ~last.ok
    /\ ReadJson(files[last.path]).t = "dict"
    /\ Len(ReadJson(files[last.path]).v) = 2
    /\ WellFormed(<<ReadJson(files[last.path]).v[1]>>)
    /\ ValidateResult(ReadJson(files[last.path])).error = "InvalidPattern"

-----------------------------------------------------------------------------
(* More properties of detect_in_code *)

Contains(text, part) ==
    \E i \in 1..(Len(text) - Len(part) + 1) :
        \A k \in 1..Len(part) : Lower(text[i + k - 1]) = Lower(part[k])

\* detect_in_code has scanned the code of scenario A with the default library
ScenarioAScanned ==
    /\ detected.calls > 0
    /\ js_code = ScenarioA
    /\ algorithms = DefaultRules
    /\ detected.source = "a.js"

\* C16 as the spec has it: scenario A gives exactly one record, with algorithm
\* MD5, source a.js, line 1 and a match text that contains createHash('md5').
ScenarioAMatchIsCall ==
    ScenarioAScanned =>
        /\ Len(detected.records) = 1
        /\ detected.records[1].algorithm = "MD5"
        /\ detected.records[1].source = "a.js"
        /\ detected.records[1].line = 1
        /\ Contains(detected.records[1].match, <<"createHash", "(", "'", "md5", "'", ")">>)

\* C16, amended: scenario A gives exactly one record, with algorithm MD5,
\* source a.js, line 1 and the match text md5: the match of the first MD5
\* pattern, \bmd5\b; the match of the createHash pattern falls on the same
\* line and is dropped as a duplicate.
ScenarioAMatchIsFirstPattern ==
    ScenarioAScanned =>
        /\ Len(detected.records) = 1
        /\ detected.records[1].algorithm = "MD5"
        /\ detected.records[1].source = "a.js"
        /\ detected.records[1].line = 1
        /\ detected.records[1].match = <<"md5">>

\* scenario A was scanned, and both MD5 patterns had matched its one line
ScenarioAWitness ==
    /\ ScenarioAScanned
    /\ LET cleaned == remove_comments(js_code)
           raw == AlgorithmRecords(algorithms, 1, detected.source, cleaned, splitlines(cleaned))
       IN  /\ Len(raw) = 2
           /\ Contains(raw[2].match, <<"createHash", "(", "'", "md5", "'", ")">>)

-----------------------------------------------------------------------------
(* Scenario D *)

\* a crawl of depth 1 of the clean page q, whose one script tag points to a.js
\* (createCipher('des')), has returned and no fetch failed
ScenarioDCrawled ==
    /\ pc = "done"
    /\ max_depth = 1
    /\ StartUrl = "q"
    /\ web["q"].srcs = <<"a.js">>
    /\ \A i \in 1..Len(fetched) : fetched[i].ok

\* C17: scenario D returns exactly one record, a DES record tagged to the
\* external script, and the script is not processed as a crawl node.
ScenarioDOneRecord ==
    ScenarioDCrawled =>
        /\ Len(results) = 1
        /\ results[1].algorithm = "DES"
        /\ results[1].source = ExternalSource("a.js")
        /\ "a.js" \notin visited
        /\ ~web["a.js"].known
        /\ \A i \in 1..Len(fetched) : fetched[i].url = "a.js" => fetched[i].kind = "script"

\* scenario D has run: the page and the script were fetched
ScenarioDWitness ==
    /\ ScenarioDCrawled
    /\ Len(fetched) = 2
    /\ fetched[2].url = "a.js"

-----------------------------------------------------------------------------
(* Key files *)

Taken(dir, name) == dir[name] # NoFile

\* key.json if that name is free, else key_n.json for the smallest free n >= 1
SmallestFreeName(dir) ==
    IF ~Taken(dir, KeyName(0)) THEN KeyName(0)
    ELSE KeyName(CHOOSE n \in 1..MaxFiles :
                     /\ ~Taken(dir, KeyName(n))
                     /\ \A m \in 1..(n - 1) : Taken(dir, KeyName(m)))

AllNamesTaken(dir) == \A name \in KeyNames : Taken(dir, name)

\* no key file of an earlier session: the session began in an empty directory
StartedEmpty == \A name \in KeyNames : files[name] # OldKeyFile

\* C18: a save changes no file that exists; the one file it makes is key.json
\* if that name is free, else key_n.json for the smallest free n >= 1; the
\* saves of a session that began in an empty directory have made key.json,
\* key_1.json, ... in this order of names.
SaveNeverOverwrites ==
    /\ [][files' # files =>
              /\ ~AllNamesTaken(files)
              /\ \E free \in {SmallestFreeName(files)} :
                     /\ ~Taken(files, free)
                     /\ Taken(files', free)
                     /\ \A name \in KeyNames \ {free} : files'[name] = files[name]]_vars
    /\ [](StartedEmpty =>
              {name \in KeyNames : Taken(files, name)}
                  = {KeyName(n) : n \in 0..(SavesMade - 1)})

\* two saves after a start in the empty directory: key.json, then key_1.json
SaveNeverOverwritesWitness ==
    /\ StartedEmpty
    /\ last.op = "save_detected_keys"
    /\ last.ok
    /\ last.path = "key_1.json"
    /\ Taken(files, "key.json")
    /\ files["key.json"] # files["key_1.json"]

\* C19: a save that meets no I/O error fails exactly if there are no results
\* or every name key.json, key_1.json, ..., key_1000.json is taken; a failed
\* save changes no file, and the failure is the return value False.
SaveFailsIffNoDataOrExhausted ==
    [][(last'.op = "save_detected_keys" /\ last'.io \notin {"open_failed", "write_failed"}) =>
           /\ last'.ok \in BOOLEAN
           /\ ~last'.ok <=> (current_detection_results = <<>> \/ AllNamesTaken(files))
           /\ ~last'.ok => files' = files]_vars

\* a save of results has failed in the directory where every name is taken
SaveFailsWitness ==
    /\ last.op = "save_detected_keys"
    /\ last.io = "none"
    /\ ~last.ok
    /\ current_detection_results # <<>>
    /\ AllNamesTaken(files)

-----------------------------------------------------------------------------
(* Comments and string literals *)

\* the number of double quotes among the first n symbols of text
RECURSIVE QuotesBefore(_, _)
QuotesBefore(text, n) ==
    IF n = 0 THEN 0
    ELSE QuotesBefore(text, n - 1) + (IF text[n] = "\"" THEN 1 ELSE 0)

\* position i of text lies inside a double-quoted string literal that is closed
InLiteral(text, i) ==
    /\ QuotesBefore(text, i) % 2 = 1
    /\ \E j \in (i + 1)..Len(text) : text[j] = "\""

\* // and /* occur in text only inside closed string literals
CommentMarksOnlyInLiterals(text) ==
    \A i \in 1..(Len(text) - 1) :
        (text[i] = "/" /\ text[i + 1] \in {"/", "*"}) =>
            (InLiteral(text, i) /\ InLiteral(text, i + 1))

\* C20: a text in which // and /* occur only inside quoted string literals
\* comes out of remove_comments as it went in.
StripLeavesLiterals ==
    CommentMarksOnlyInLiterals(js_code) => remove_comments(js_code) = js_code

-----------------------------------------------------------------------------
(* Comments *)

\* what a JavaScript reader leaves of text from position i on: // opens a
\* comment up to the end of the line, /* one up to the next */, whichever
\* comes first; a /* that is never closed is no comment
RECURSIVE Uncommented(_, _)
Uncommented(text, i) ==
    IF i > Len(text) THEN <<>>
    ELSE IF i < Len(text) /\ text[i] = "/" /\ text[i + 1] = "/"
         THEN Uncommented(text, EndOfLine(text, i + 2))
         ELSE IF i < Len(text) /\ text[i] = "/" /\ text[i + 1] = "*"
                    /\ CloseAt(text, i + 2) # 0
              THEN Uncommented(text, CloseAt(text, i + 2) + 2)
              ELSE <<text[i]>> \o Uncommented(text, i + 1)

NoQuotes(text) == \A i \in 1..Len(text) : text[i] # "\""

\* C21: a text whose part outside comments holds no match gives no record,
\* so a keyword that stands only inside a comment is never reported.
CommentedKeywordSilent ==
    (/\ detected.calls > 0
     /\ NoQuotes(js_code)
     /\ detect_in_code(algorithms, Uncommented(js_code, 1), detected.source) = <<>>)
        => detected.records = <<>>

-----------------------------------------------------------------------------
(* The built-in rules *)

BuiltInNames == {"MD5", "SHA-1", "SHA-256", "AES", "RSA", "Base64", "DES"}

\* C22: loadDefault succeeds and leaves exactly the seven built-in algorithms
\* with their original pattern lists, whatever was loaded or merged before.
LoadDefaultResets ==
    last.op = "default" =>
        /\ last.ok
        /\ Len(algorithms) = 7
        /\ Keys(algorithms) = BuiltInNames
        /\ \A alg \in BuiltInNames : Get(algorithms, alg) = Get(DefaultRules, alg)
        /\ loaded_rules_path = DefaultRulesPath

\* a default load in a session that has a file on disk whose merge gives MD5
\* a pattern of its own
LoadDefaultResetsWitness ==
    /\ last.op = "default"
    /\ algorithms = DefaultRules
    /\ \E path \in DOMAIN files :
           /\ LoadAccepts(ReadJson(files[path]))
           /\ PatternSet(ReadJson(files[path]).v, "MD5") \ PatternSet(DefaultRules, "MD5") # {}

-----------------------------------------------------------------------------
(* Visited and fetched *)

\* C23: whenever the crawl issues a fetch for a URL, as a page or as an
\* external script, the URL is in the visited set already.
VisitedBeforeFetch ==
    [][fetched' # fetched => fetched'[Len(fetched')].url \in visited]_vars

-----------------------------------------------------------------------------
(* Line numbers and context *)

\* the lines of text as the newline characters delimit them
RECURSIVE NewlineLines(_, _, _)
NewlineLines(text, i, cur) ==
    IF i > Len(text) THEN <<cur>>
    ELSE IF text[i] = "\n" THEN <<cur>> \o NewlineLines(text, i + 1, <<>>)
         ELSE NewlineLines(text, i + 1, Append(cur, text[i]))

\* the lines numbered n to end, each non-blank one trimmed and with its number
RECURSIVE NumberedLines(_, _, _)
NumberedLines(lines, n, end) ==
    IF n > end THEN <<>>
    ELSE (IF strip(lines[n]) # <<>> THEN <<[n |-> n, text |-> strip(lines[n])]>> ELSE <<>>)
             \o NumberedLines(lines, n + 1, end)

\* C24: the context block of a record holds the non-blank lines numbered
\* max(1, line-2) to min(lastLine, line+2) of the newline-delimited normalized
\* text, the same text the line number counts in.
ContextOfNewlineLines ==
    detected.calls > 0 =>
        \A k \in 1..Len(detected.records) :
            LET r == detected.records[k]
                lines == NewlineLines(remove_comments(js_code), 1, <<>>)
            IN  r.context = NumberedLines(lines, Max(1, r.line - 2), Min(Len(lines), r.line + 2))

-----------------------------------------------------------------------------
(* Which duplicate survives *)

\* the records of the algorithms 1..n of rules, algorithm after algorithm in
\* insertion order, the patterns of each in the order of its list
RECURSIVE ProducedUpTo(_, _, _, _)
ProducedUpTo(rules, n, source, cleaned_code) ==
    IF n = 0 THEN <<>>
    ELSE ProducedUpTo(rules, n - 1, source, cleaned_code)
             \o PatternRecords(rules[n].v.v, 1, rules[n].k, source, cleaned_code,
                               splitlines(cleaned_code))

\* the records of recs that no earlier record shares its key with, in order
RECURSIVE FirstPerKey(_, _)
FirstPerKey(recs, n) ==
    IF n = 0 THEN <<>>
    ELSE FirstPerKey(recs, n - 1)
             \o (IF \E j \in 1..(n - 1) : Key(recs[j]) = Key(recs[n]) THEN <<>> ELSE <<recs[n]>>)

KeySet(recs) == {Key(recs[i]) : i \in 1..Len(recs)}

Backwards(seq) == [i \in 1..Len(seq) |-> seq[Len(seq) + 1 - i]]

\* rules with the algorithms in the opposite order
AlgorithmsBackwards(rules) == Backwards(rules)

\* rules with the patterns of every algorithm in the opposite order
PatternsBackwards(rules) ==
    [i \in 1..Len(rules) |-> [k |-> rules[i].k, v |-> JList(Backwards(rules[i].v.v))]]

\* C25: detect returns, in the order of production, the first record of every
\* (algorithm, source, line) among the records produced in insertion order;
\* the set of keys is the same for other orders of algorithms and patterns.
DetectKeepsFirst ==
    detected.calls > 0 =>
        \A produced \in {ProducedUpTo(algorithms, Len(algorithms), detected.source,
                                      remove_comments(js_code))} :
            /\ detected.records = FirstPerKey(produced, Len(produced))
            /\ \A rules \in {AlgorithmsBackwards(algorithms), PatternsBackwards(algorithms),
                             PatternsBackwards(AlgorithmsBackwards(algorithms))} :
                   KeySet(detect_in_code(rules, js_code, detected.source))
                       = KeySet(detected.records)

\* a scan in which a later record has the key of an earlier, different one,
\* and records of two algorithms are returned
DetectKeepsFirstWitness ==
    /\ detected.calls > 0
    /\ \E produced \in {ProducedUpTo(algorithms, Len(algorithms), detected.source,
                                     remove_comments(js_code))} :
           \E i, j \in 1..Len(produced) :
               /\ i < j
               /\ Key(produced[i]) = Key(produced[j])
               /\ produced[i] # produced[j]
               /\ \E k \in 1..Len(detected.records) : detected.records[k] = produced[i]

-----------------------------------------------------------------------------
(* What a crawl covers *)

\* the .js URLs the script tags of url point to
JsLinksOf(url) == {u \in LinksOf(url) : EndsWithJs(u)}

\* the URLs at most n links to .js URLs away from url
RECURSIVE JsWithin(_, _)
JsWithin(url, n) ==
    IF n = 0 THEN {url}
    ELSE LET near == JsWithin(url, n - 1)
         IN  near \cup UNION {JsLinksOf(u) : u \in near}

\* the URLs whose text detect_in_code has scanned as an external script
ScannedScripts == {fetched[i].url : i \in {j \in 1..Len(fetched) : fetched[j].kind = "script"}}

\* C26: a crawl without a failed fetch scans every .js URL that a chain of at
\* most max_depth script links leads to from the start URL.
CrawlCoversReachable ==
    (pc = "done" /\ fetched # <<>> /\ Failed = {}) =>
        (JsWithin(StartUrl, max_depth) \ {StartUrl}) \subseteq ScannedScripts

-----------------------------------------------------------------------------
(* The URL count *)

FetchedUrls == {fetched[i].url : i \in 1..Len(fetched)}

\* C27: when a crawl completes, the visited set, whose size is the URL count
\* reported, is the set of the URLs that were fetched as a page or as a script
\* (looked at for the crawls in which no fetch failed).
VisitedAreFetched == (pc = "done" /\ Failed = {}) => visited = FetchedUrls

-----------------------------------------------------------------------------
(* Line numbers and the original text *)

\* C28: the line number of a record is the line of the match in the text that
\* was passed to detect_in_code: the matched text stands on that line of it.
LineOfOriginalText ==
    detected.calls > 0 =>
        \A lines \in {NewlineLines(js_code, 1, <<>>)} :
            \A k \in 1..Len(detected.records) :
                /\ detected.records[k].line <= Len(lines)
                /\ Contains(lines[detected.records[k].line], detected.records[k].match)

-----------------------------------------------------------------------------
(* Pattern counts after a merge *)

\* C29: after a successful merge every algorithm the merged file names has a
\* pattern list without duplicates in the library, so that the pattern count
\* counts each of its patterns once.
MergedListsDuplicateFree ==
    (last.op = "merge" /\ last.ok) =>
        \A alg \in Keys(ReadJson(files[last.path]).v) :
            Len(Get(algorithms, alg).v) = Cardinality(PatternSet(algorithms, alg))

-----------------------------------------------------------------------------
(* A second pass over stripped text *)

\* C30: remove_comments applied to its own output gives that output again.
StripIdempotent ==
    remove_comments(remove_comments(js_code)) = remove_comments(js_code)

\* a text with comments on two lines has been scanned; text is left of it
StripIdempotentWitness ==
    /\ detected.calls > 0
    /\ \E i, j \in 1..(Len(js_code) - 1) :
           /\ js_code[i] = "/" /\ js_code[i + 1] = "/"
           /\ js_code[j] = "/" /\ js_code[j + 1] = "/"
           /\ \E n \in (i + 2)..(j - 1) : js_code[n] = "\n"
    /\ remove_comments(js_code) \notin {js_code, <<>>}

=============================================================================
